---- MODULE Spec2Model ----
(***************************************************************************)
(* LeadEngine website_scraper: the incremental crawl-and-reconcile         *)
(* pipeline (WebsiteScraperModule.execute and its helpers), the            *)
(* TargiKielceParser probe / paginator with its single-slot page cache,    *)
(* and the event-date normalisation.                                       *)
(*                                                                         *)
(* Text values (names, date strings) are sequences of one-character        *)
(* strings so that slicing, splitting and formatting are computed.         *)
(***************************************************************************)
EXTENDS Integers, Sequences, FiniteSets, TLC

(***************************************************************************)
(* Program constants                                                       *)
(***************************************************************************)
CompanyNameLimit == 250
EventNameLimit == 50
CountryNameLimit == 50
DefaultCountryId == 1
PageCeiling == 20
DefaultTotalPages == 10
DefaultMaxRetries == 3

(***************************************************************************)
(* Bounds of the model                                                     *)
(***************************************************************************)
MaxRuns == 2
MaxEvents == 2
MaxIterations == 2
MaxListing == 2
MaxCount == 2
MaxDbFailures == 1
MaxInstances == 2

(***************************************************************************)
(* Text helpers                                                            *)
(***************************************************************************)
Min(a, b) == IF a < b THEN a ELSE b

Pad(c, n) == [i \in 1..n |-> c]

\* Python s[:n]
SliceTo(s, n) == SubSeq(s, 1, Min(Len(s), n))

SeqsUpTo(S, n) == UNION {[1..k -> S] : k \in 0..n}

(***************************************************************************)
(* Source data: the catalogue of events and exhibitors the site can serve. *)
(* An event or exhibitor is carried in the run state by its key; its text  *)
(* fields are the sequences below.                                         *)
(***************************************************************************)
EventKeys == {"ev1", "ev2", "ev3"}

\* ev1 and ev3 agree on their first 50 characters; ev2 is a short name.
EventName(e) ==
    CASE e = "ev1" -> Pad("e", EventNameLimit) \o <<"1">>
      [] e = "ev2" -> <<"f">>
      [] OTHER     -> Pad("e", EventNameLimit) \o <<"3">>

EventDateStr(e) ==
    CASE e = "ev1" -> <<"1","2","-","1","4",".","0","3",".","2","0","2","5">>
      [] e = "ev2" -> <<>>
      [] OTHER     -> <<"0","5",".","0","6",".","2","0","2","5">>

EventExhibitorsUrl(e) ==
    CASE e = "ev1" -> "u1"
      [] e = "ev2" -> "u2"
      [] OTHER     -> "u3"

ExhibitorKeys == {"x1", "x2", "x3"}

\* x1 and x2 are distinct names that agree on their first 250 characters.
ExhibitorName(x) ==
    CASE x = "x1" -> Pad("x", CompanyNameLimit) \o <<"a">>
      [] x = "x2" -> Pad("x", CompanyNameLimit) \o <<"b">>
      [] OTHER    -> <<"y">>

ExhibitorCountry(x) ==
    CASE x = "x1" -> <<"P","L">>
      [] x = "x2" -> <<>>
      [] OTHER    -> <<"D","E">>

(***************************************************************************)
(* Event-date normalisation: WebsiteScraperModule._parse_event_date        *)
(***************************************************************************)
MaxDateParts == 4

DecimalDigits == {"0","1","2","3","4","5","6","7","8","9"}

\* Characters for which str.isdigit() is true but int() raises ValueError.
NonDecimalDigits == {"^2"}

None == -1

DigitVal(c) ==
    CASE c = "0" -> 0 [] c = "1" -> 1 [] c = "2" -> 2 [] c = "3" -> 3
      [] c = "4" -> 4 [] c = "5" -> 5 [] c = "6" -> 6 [] c = "7" -> 7
      [] c = "8" -> 8 [] OTHER -> 9

DigitChar(d) ==
    CASE d = 0 -> "0" [] d = 1 -> "1" [] d = 2 -> "2" [] d = 3 -> "3"
      [] d = 4 -> "4" [] d = 5 -> "5" [] d = 6 -> "6" [] d = 7 -> "7"
      [] d = 8 -> "8" [] OTHER -> "9"

\* str.replace(old, new) for single characters
Replace(s, old, new) == [i \in 1..Len(s) |-> IF s[i] = old THEN new ELSE s[i]]

\* str.split(sep): every separator splits, empty pieces are kept
RECURSIVE SplitFrom(_, _, _, _)
SplitFrom(s, sep, i, cur) ==
    IF i > Len(s) THEN <<cur>>
    ELSE IF s[i] = sep THEN <<cur>> \o SplitFrom(s, sep, i + 1, <<>>)
    ELSE SplitFrom(s, sep, i + 1, Append(cur, s[i]))

Split(s, sep) == SplitFrom(s, sep, 1, <<>>)

\* str.isdigit(): non-empty and every character is a digit character
IsDigit(s) ==
    /\ Len(s) > 0
    /\ \A i \in 1..Len(s) : s[i] \in DecimalDigits \cup NonDecimalDigits

\* int(s) raises ValueError on a digit character that is not decimal
IntRaises(s) == \E i \in 1..Len(s) : s[i] \notin DecimalDigits

RECURSIVE StrToInt(_)
StrToInt(s) ==
    IF s = <<>> THEN 0
    ELSE 10 * StrToInt(SubSeq(s, 1, Len(s) - 1)) + DigitVal(s[Len(s)])

RECURSIVE IntToStr(_)
IntToStr(n) ==
    IF n < 10 THEN <<DigitChar(n)>>
    ELSE Append(IntToStr(n \div 10), DigitChar(n % 10))

\* format(n, "0<w>d")
ZeroPad(n, w) ==
    LET d == IntToStr(n)
    IN  IF Len(d) >= w THEN d ELSE Pad("0", w - Len(d)) \o d

\* f"{year:04d}-{month:02d}-{day:02d}"
FormatDate(year, month, day) ==
    ZeroPad(year, 4) \o <<"-">> \o ZeroPad(month, 2) \o <<"-">> \o ZeroPad(day, 2)

\* One iteration of the loop "for part in reversed(parts)": acc carries
\* year / month / day and whether int() has raised.
ScanStep(acc, part) ==
    IF Len(part) = 4 /\ IsDigit(part)
    THEN IF IntRaises(part) THEN [acc EXCEPT !.raised = TRUE]
         ELSE [acc EXCEPT !.year = StrToInt(part)]
    ELSE IF Len(part) <= 2 /\ IsDigit(part)
    THEN IF IntRaises(part) THEN [acc EXCEPT !.raised = TRUE]
         ELSE IF acc.month = None
              THEN [acc EXCEPT !.month = StrToInt(part)]
              ELSE [acc EXCEPT !.day = StrToInt(part)]
    ELSE acc

\* The loop over parts[i], parts[i-1], ..., parts[1]
RECURSIVE ScanParts(_, _, _)
ScanParts(parts, i, acc) ==
    IF i = 0 \/ acc.raised THEN acc
    ELSE ScanParts(parts, i - 1, ScanStep(acc, parts[i]))

\* variant: every value passes an "if not" check
TruthyAlways(n) == TRUE

\* Python truthiness of an Optional[int]
Truthy(n) == n # None /\ n # 0

\* The try-block of _parse_event_date: [raised, value]
ParseEventDateBody(date_str, now) ==
    IF date_str = <<>> THEN [raised |-> FALSE, value |-> now]
    ELSE LET parts == Split(Replace(date_str, "-", "."), ".")
             r == ScanParts(parts, Len(parts),
                            [year |-> None, month |-> None, day |-> None, raised |-> FALSE])
         IN  IF Len(parts) >= 3
             THEN IF r.raised THEN [raised |-> TRUE, value |-> <<>>]
                  ELSE IF Truthy(r.year) /\ Truthy(r.month) /\ Truthy(r.day)
                       THEN [raised |-> FALSE, value |-> FormatDate(r.year, r.month, r.day)]
                       ELSE [raised |-> FALSE, value |-> now]
             ELSE [raised |-> FALSE, value |-> now]

\* variant: no "except Exception" handler around the body
parse_event_date_unhandled(date_str, now) == ParseEventDateBody(date_str, now)

\* _parse_event_date with its "except Exception" handler
parse_event_date(date_str, now) ==
    LET r == ParseEventDateBody(date_str, now)
    IN  IF r.raised THEN [raised |-> FALSE, value |-> now] ELSE r


(***************************************************************************)
(* State                                                                   *)
(***************************************************************************)
VARIABLES
    \* relational store: each table is the sequence of its rows in insert order
    dataSource, eventTab, company, countryTab,
    \* WebsiteScraperModule.execute: position and locals
    pc, events, ev_i, data_source_id, event_id, db_count, expected_count,
    exhibitors, ex_j, existing_names, country_id, saved_count,
    total_exhibitors, processed_events, skipped_events,
    \* TargiKielceParser single-slot page cache
    cached_url, cached_html,
    \* the site: version of the listing page served for each URL
    webVer,
    \* the clock (datetime.now() formatted as YYYY-MM-DD)
    today,
    \* observation of the run: number of runs started, of event iterations
    \* started and of DatabaseErrors raised so far, and for the current event
    \* iteration whether the probe has returned, the get_exhibitors calls made
    \* and the table sizes at its start
    runs, iters, dbFails, probed, iter_fetch_calls, iter_company0, iter_country0,
    \* observation of the exhibitor being reconciled and of the outcomes of
    \* the current listing
    last, outcomes,
    \* observation of the last get_exhibitors call (URL, body parsed, whether it
    \* came from the cache) and, when the parser is driven directly, the calls
    \* made to it
    served, call_log

VARIABLES
    \* _parse_event_date called on its own: position, argument and result
    date_pc, date_str, date_result,
    \* _fetch_exhibitors_from_api: position, locals, and the API it talks to
    \* (declared page total of the embedded configuration, number of non-empty
    \* pages served)
    pg_pc, declared_total, served_pages, page_index, max_pages, all_exhibitors,
    \* observation of the pagination: page indexes requested, whether every
    \* response total so far agreed with the declared one, whether a request
    \* failed or a page had a view without rows, and the last page request:
    \* what fetch_url returned, the body, what fetch_json returned and the
    \* pager total of the response
    requests, totals_agree, page_failed, response

VARIABLES
    \* BaseModule.run: whether the database connection and the HTTP session were
    \* acquired, how often each was released, what execute() ended with, and
    \* the exit code returned
    db_acquired, session_acquired, db_disconnects, session_closes, result, exit_code,
    \* observation of the run: the step that made it fail, the indexes of the
    \* events whose iteration was started, in order, and of those that ended on
    \* an error
    fault, attempted, event_errors

VARIABLES
    \* ScrapingEngine configuration
    max_retries, delay,
    \* fetch_url: position, loop variable, result
    fu_pc, attempt, fetch_result,
    \* the session call in progress: retries the adapter has left, failed
    \* requests, requests sent and seconds slept so far, and what it ended with
    total_left, call_errors, call_wire, call_slept, session_outcome,
    \* observation of the call of fetch_url: what each attempt ended with, the
    \* seconds waited before attempts 2, 3, ..., and the seconds slept by
    \* fetch_url since the last attempt ended
    attempt_log, waits, gap

VARIABLES
    \* the parser applied to one listing page: the page, the position, what
    \* get_exhibitors_count_fast and get_exhibitors returned, whether
    \* get_exhibitors called _fetch_exhibitors_from_api and
    \* _parse_exhibitors_from_html, and the return it took
    page, pp_pc, probe_count, gx_result, gx_paginated, gx_fallback, gx_end

VARIABLES
    \* observation of the probe of the current event iteration: how
    \* get_exhibitors_count_fast ended ("unfetched", "raised" for an exception
    \* caught by its handler, "counted")
    probe_end,
    \* observation of the run: the return get_events took ("fetch_failed",
    \* "no_view", "raised" for an exception caught by its handler, "parsed")
    events_end

VARIABLES
    \* observation across processes: the event and the listing in hand when the
    \* last terminated process was struck inside _save_company
    killed

dbVars == <<dataSource, eventTab, company, countryTab>>
runVars == <<pc, events, ev_i, data_source_id, event_id, db_count, expected_count,
             exhibitors, ex_j, existing_names, country_id, saved_count,
             total_exhibitors, processed_events, skipped_events>>
cacheVars == <<cached_url, cached_html>>
obsVars == <<runs, iters, dbFails, probed, iter_fetch_calls, iter_company0, iter_country0,
             last, outcomes, served, call_log>>

dateVars == <<date_pc, date_str, date_result>>
pagerVars == <<pg_pc, declared_total, served_pages, page_index, max_pages,
               all_exhibitors, requests, totals_agree, page_failed, response>>

resVars == <<db_acquired, session_acquired, db_disconnects, session_closes, exit_code>>
lifeVars == <<resVars, result, fault, attempted, event_errors>>

fetchVars == <<max_retries, delay, fu_pc, attempt, fetch_result, total_left, call_errors,
               call_wire, call_slept, session_outcome, attempt_log, waits, gap>>

pageVars == <<page, pp_pc, probe_count, gx_result, gx_paginated, gx_fallback, gx_end>>

VARIABLES
    \* SpecEvents: one call of get_events
    cards,        \* the cards of the 'view', in document order
    card_i,       \* index of the card the loop is at
    ge_events,    \* the list "events" of get_events
    ge_pc         \* "idle", "loop", "done"

eventsVars == <<cards, card_i, ge_events, ge_pc>>

VARIABLES
    \* SpecFilter: one call of _filter_future_events
    ff_events,      \* the 'date' of each event of the argument, in order
    ff_i,           \* index of the event the loop is at
    future_events,  \* the list "future_events": indexes of the events kept
    ff_pc           \* "idle", "loop", "done"

filterVars == <<ff_events, ff_i, future_events, ff_pc>>

VARIABLES
    \* SpecTwo: instances of the job reconciling the listing of one event
    \* against the same database
    two_listing,  \* the listing get_exhibitors returned to every instance
    inst          \* per instance: position, loop index, existing_names,
                  \* country_id, and the size of the Company table when the
                  \* existence check of the exhibitor in hand found nothing

twoVars == <<two_listing, inst>>

VARIABLES
    \* the site as two consecutive runs see it: the events of the landing
    \* page and the exhibitor listing advertised for each URL
    source_events, source_listing

sourceVars == <<source_events, source_listing>>

\* the variables outside the reconciliation pipeline
pipelineFrame == <<dateVars, pagerVars, fetchVars, pageVars, eventsVars, filterVars, twoVars, sourceVars, killed>>

\* the variables a pipeline statement other than the probe leaves alone
stepFrame == <<pipelineFrame, probe_end, events_end>>

(***************************************************************************)
(* Relational store (common/database.py) and the queries of main.py        *)
(***************************************************************************)
DataSourceName == <<"T","a","r","g","i"," ","K","i","e","l","c","e">>

Urls == {"u1", "u2", "u3"}

Dates == {<<"2","0","2","6","-","1","1","-","0","4">>}

\* SELECT ... WHERE Name = ?  : positions of the matching rows
\* variant: the INSERT replaces the newest row
InsertOverwriting(table, row) ==
    IF table = <<>> THEN <<row>> ELSE [table EXCEPT ![Len(table)] = row]

\* INSERT ... committed by execute_query(fetch=False)
Insert(table, row) == Append(table, row)

\* variant: the lookup by name finds nothing
RowsByNameNone(table, name) == {}

\* SELECT Id FROM <table> WHERE Name = ?
RowsByName(table, name) == {i \in 1..Len(table) : table[i].Name = name}

\* variant: the existence check finds nothing
SelectCompanyNoCheck(name, eid) == {}

\* variant: the existence check ignores the event
SelectCompanyAnyEvent(name, eid) ==
    {i \in 1..Len(company) : company[i].Name = name}

\* SELECT Id FROM [CRM].[Company] WHERE Name = ? AND EventId = ?
SelectCompany(name, eid) ==
    {i \in 1..Len(company) : company[i].Name = name /\ company[i].EventId = eid}

\* SELECT COUNT(*) FROM [CRM].[Company] WHERE EventId = ?
CountCompany(eid) == Cardinality({i \in 1..Len(company) : company[i].EventId = eid})

\* variant: the names stored for any event
CompanyNamesAnyEvent(eid) == {company[i].Name : i \in 1..Len(company)}

\* SELECT Name FROM [CRM].[Company] WHERE EventId = ?
CompanyNames(eid) == {company[i].Name : i \in {k \in 1..Len(company) : company[k].EventId = eid}}

\* variant: the name is not truncated
CompanyKeyUntruncated(name) == name

\* the key a Company is compared and stored under: name[:250]
CompanyKey(name) == SliceTo(name, CompanyNameLimit)

\* variant: the event name is stored whole
EventKeyUntruncated(name) == name

\* the key an Event is compared and stored under: name[:50]
EventKey(name) == SliceTo(name, EventNameLimit)

\* variant: the short-circuit needs strictly more stored rows
UpToDateStrict(db, expected) == db > expected

\* the short-circuit test of execute(): db_count >= expected_count
UpToDate(db, expected) == db >= expected

\* whether one more execute_query may raise DatabaseError in this run
MayFail == dbFails < MaxDbFailures


(***************************************************************************)
(* TargiKielceParser: the probe and the head of get_exhibitors, as far as  *)
(* the page cache is concerned.  A page body is <<url, version>>.          *)
(***************************************************************************)
NoBody == <<>>

PageBody(u) == <<u, webVer[u]>>

\* get_exhibitors takes the cached body iff the cached URL is the requested one
CacheHit(u) == cached_url = u

\* variant: no "except Exception" handler result, the count is returned
CountFastUnhandled(fetched, raises, counted) ==
    IF ~fetched THEN 0 ELSE counted

\* get_exhibitors_count_fast, lines 110-132: 0 without a body, 0 from the
\* handler when reading the page raises, else the count read from the page
CountFast(fetched, raises, counted) ==
    IF ~fetched THEN 0
    ELSE IF raises THEN 0
    ELSE counted

\* which return statement of get_exhibitors_count_fast was taken
ProbeEnd(fetched, raises) ==
    IF ~fetched THEN "unfetched"
    ELSE IF raises THEN "raised"
    ELSE "counted"

\* variant: the probe does not keep the page
ProbeCacheUnfilled(u, fetched) == UNCHANGED cacheVars

\* get_exhibitors_count_fast(u): fetch, fill the cache, count.  fetched says
\* whether engine.get_html_content returned a body.
ProbeCache(u, fetched) ==
    IF fetched
    THEN /\ cached_url' = u
         /\ cached_html' = PageBody(u)
    ELSE UNCHANGED cacheVars

\* variant: the cached body is taken and the slot is not cleared
GetExhibitorsCacheKept(u, fetched) ==
    IF CacheHit(u)
    THEN /\ served' = [url |-> u, body |-> cached_html, from_cache |-> TRUE]
         /\ UNCHANGED cacheVars
    ELSE /\ served' = [url |-> u, body |-> IF fetched THEN PageBody(u) ELSE NoBody,
                       from_cache |-> FALSE]
         /\ UNCHANGED cacheVars

\* get_exhibitors(u), lines 150-158: take the cached body and clear the slot,
\* or fetch the page and leave the slot as it is.
GetExhibitorsCache(u, fetched) ==
    IF CacheHit(u)
    THEN /\ served' = [url |-> u, body |-> cached_html, from_cache |-> TRUE]
         /\ cached_html' = NoBody
         /\ cached_url' = "None"
    ELSE /\ served' = [url |-> u, body |-> IF fetched THEN PageBody(u) ELSE NoBody,
                       from_cache |-> FALSE]
         /\ UNCHANGED cacheVars


(***************************************************************************)
(* WebsiteScraperModule.execute, one action per statement that reads or    *)
(* writes the store or calls the parser.                                   *)
(***************************************************************************)
NoLast == [eid |-> 0, key |-> <<>>, stored_before |-> FALSE,
           stored_elsewhere |-> FALSE, len_before |-> 0, outcome |-> "none"]

\* the kill record: not kept, or kept and empty
KillsNotObserved == [event |-> "unobserved", exhibitors |-> <<>>]

NoKill == [event |-> "none", exhibitors |-> <<>>]

NoServed == [url |-> "None", body |-> NoBody, from_cache |-> FALSE]

Listings == SeqsUpTo(ExhibitorKeys, MaxListing)

EventLists == SeqsUpTo(EventKeys, MaxEvents)

CurEvent == events[ev_i]

CurExhibitor == exhibitors[ex_j]

\* "continue" / end of the body of "for event in events"
NextEvent ==
    /\ ev_i' = ev_i + 1
    /\ pc' = "loop"

\* The locals of one iteration (event_id .. saved_count) are assigned before
\* they are read in the next iteration; the model returns them to their
\* initial values where the iteration starts, and the locals of execute()
\* where the process ends.
FreshIteration ==
    /\ event_id' = 0 /\ db_count' = 0 /\ expected_count' = 0
    /\ exhibitors' = <<>> /\ ex_j' = 1
    /\ existing_names' = {} /\ country_id' = 0 /\ saved_count' = 0
    /\ probed' = FALSE /\ probe_end' = "none" /\ iter_fetch_calls' = 0
    /\ iter_company0' = Len(company) /\ iter_country0' = Len(countryTab)
    /\ last' = NoLast /\ outcomes' = <<>>

\* BaseModule.__init__: nothing acquired, nothing returned yet
FreshProcess ==
    /\ db_acquired' = FALSE /\ session_acquired' = FALSE
    /\ db_disconnects' = 0 /\ session_closes' = 0
    /\ result' = "none" /\ exit_code' = None
    /\ fault' = "none" /\ attempted' = <<>> /\ event_errors' = {}
    /\ events_end' = "none"

\* a new process: main() builds the module and calls run()
StartRun ==
    /\ pc = "off"
    /\ runs < MaxRuns
    /\ runs' = runs + 1
    /\ pc' = "setup"
    /\ FreshProcess
    /\ events' = <<>> /\ ev_i' = 1
    /\ data_source_id' = 0
    /\ FreshIteration
    /\ total_exhibitors' = 0 /\ processed_events' = 0 /\ skipped_events' = 0
    /\ cached_url' = "unset" /\ cached_html' = NoBody
    /\ served' = NoServed /\ call_log' = <<>>
    /\ UNCHANGED <<dbVars, webVer, today, iters, dbFails>>
    /\ UNCHANGED pipelineFrame

\* run() line 139-140 when _setup() has returned False: no try/finally yet
SetupFailed ==
    /\ pc' = "off"
    /\ exit_code' = 1
    /\ fault' = "setup"

\* BaseModule._setup, lines 57-91: logger, configuration, database connection
Setup ==
    /\ pc = "setup"
    /\ \/ \* db.connect() returns
          /\ db_acquired' = TRUE
          /\ pc' = "init_module"
          /\ UNCHANGED <<exit_code, fault>>
       \/ \* ConfigError, DatabaseError or any other exception: return False
          /\ SetupFailed
          /\ UNCHANGED db_acquired
    /\ UNCHANGED <<session_acquired, db_disconnects, session_closes, result,
                   attempted, event_errors>>
    /\ UNCHANGED <<dbVars, events, ev_i, data_source_id, event_id, db_count,
                   expected_count, exhibitors, ex_j, existing_names, country_id,
                   saved_count, total_exhibitors, processed_events, skipped_events,
                   cacheVars, webVer, today, runs, iters, dbFails, probed,
                   iter_fetch_calls, iter_company0, iter_country0, last, outcomes,
                   served, call_log>>
    /\ UNCHANGED stepFrame

\* _setup lines 94-98 with WebsiteScraperModule._init_module
InitModule ==
    /\ pc = "init_module"
    /\ \/ \* the engine (with its requests.Session) and the parser are built
          /\ session_acquired' = TRUE
          /\ pc' = "test_connection"
          /\ UNCHANGED <<exit_code, fault>>
       \/ \* an exception before or after ScrapingEngine.__init__ opened the
          \* session (line 31): _init_module returns False
          /\ \E opened \in BOOLEAN : session_acquired' = opened
          /\ SetupFailed
    /\ UNCHANGED <<db_acquired, db_disconnects, session_closes, result,
                   attempted, event_errors>>
    /\ UNCHANGED <<dbVars, events, ev_i, data_source_id, event_id, db_count,
                   expected_count, exhibitors, ex_j, existing_names, country_id,
                   saved_count, total_exhibitors, processed_events, skipped_events,
                   cacheVars, webVer, today, runs, iters, dbFails, probed,
                   iter_fetch_calls, iter_company0, iter_country0, last, outcomes,
                   served, call_log>>
    /\ UNCHANGED stepFrame

\* execute() has returned r or raised: run() goes to its finally clause
Finish(r, f) ==
    /\ result' = r
    /\ fault' = f
    /\ pc' = "cleanup"

\* execute(), lines 78-81
TestConnection ==
    /\ pc = "test_connection"
    /\ \/ /\ pc' = "ensure_data_source"
          /\ UNCHANGED <<dbFails, result, fault>>
       \/ /\ MayFail
          /\ dbFails' = dbFails + 1
          /\ Finish("False", "test_connection")
    /\ UNCHANGED <<dbVars, events, ev_i, data_source_id, event_id, db_count,
                   expected_count, exhibitors, ex_j, existing_names, country_id,
                   saved_count, total_exhibitors, processed_events, skipped_events,
                   cacheVars, webVer, today, runs, iters, probed, iter_fetch_calls,
                   iter_company0, iter_country0, last, outcomes, served, call_log>>
    /\ UNCHANGED stepFrame
    /\ UNCHANGED <<resVars, attempted, event_errors>>

\* _ensure_data_source, then execute() lines 86-89
EnsureDataSource ==
    /\ pc = "ensure_data_source"
    /\ LET found == RowsByName(dataSource, DataSourceName)
           newRow == [Id |-> Len(dataSource) + 1, Name |-> DataSourceName]
       IN  \/ /\ found # {}
              /\ \E i \in found : data_source_id' = dataSource[i].Id
              /\ pc' = "get_events"
              /\ UNCHANGED <<dataSource, dbFails, result, fault>>
           \/ /\ found = {}
              /\ dataSource' = Insert(dataSource, newRow)
              /\ data_source_id' = newRow.Id
              /\ pc' = "get_events"
              /\ UNCHANGED <<dbFails, result, fault>>
           \/ \* the first SELECT or the INSERT raises: return None
              /\ MayFail
              /\ dbFails' = dbFails + 1
              /\ Finish("False", "data_source")
              /\ UNCHANGED <<dataSource, data_source_id>>
           \/ \* the SELECT after the INSERT raises: return None, row committed
              /\ MayFail
              /\ found = {}
              /\ dbFails' = dbFails + 1
              /\ dataSource' = Insert(dataSource, newRow)
              /\ Finish("False", "data_source")
              /\ UNCHANGED data_source_id
           \/ \* the rollback in execute_query raises pyodbc.Error, which
              \* _ensure_data_source does not catch: execute() raises
              /\ MayFail
              /\ dbFails' = dbFails + 1
              /\ Finish("raised", "raised")
              /\ UNCHANGED <<dataSource, data_source_id>>
    /\ UNCHANGED <<eventTab, company, countryTab, events, ev_i, event_id, db_count,
                   expected_count, exhibitors, ex_j, existing_names, country_id,
                   saved_count, total_exhibitors, processed_events, skipped_events,
                   cacheVars, webVer, today, runs, iters, probed, iter_fetch_calls,
                   iter_company0, iter_country0, last, outcomes, served, call_log>>
    /\ UNCHANGED stepFrame
    /\ UNCHANGED <<resVars, attempted, event_errors>>

\* the returns of get_events: line 50 (fetch_json gave nothing), line 55 (no
\* 'view'), line 96 after the handler of line 93, line 96 after the loop
GetEventsEnds == {"fetch_failed", "no_view", "raised", "parsed"}

\* variant: the handler returns the cards as if they had been parsed
GetEventsResultUnhandled(end, evs) ==
    IF end \in {"parsed", "raised"} THEN evs ELSE <<>>

\* what get_events returns when evs are the events of the cards
GetEventsResult(end, evs) ==
    IF end = "parsed" THEN evs ELSE <<>>

\* parser.get_events and _filter_future_events, execute() lines 92-102
GetEvents ==
    /\ pc = "get_events"
    /\ \E end \in GetEventsEnds, evs \in EventLists :
          /\ events_end' = end
          /\ events' = GetEventsResult(end, evs)
          /\ IF events' = <<>>
             THEN Finish("True", "none")
             ELSE pc' = "loop" /\ UNCHANGED <<result, fault>>
    /\ ev_i' = 1
    /\ UNCHANGED <<dbVars, data_source_id, event_id, db_count,
                   expected_count, exhibitors, ex_j, existing_names, country_id,
                   saved_count, total_exhibitors, processed_events, skipped_events,
                   cacheVars, webVer, today, runs, iters, dbFails, probed, iter_fetch_calls,
                   iter_company0, iter_country0, last, outcomes, served, call_log>>
    /\ UNCHANGED <<pipelineFrame, probe_end>>
    /\ UNCHANGED <<resVars, attempted, event_errors>>

\* "for event in events", line 109, and the end of execute()
LoopHead ==
    /\ pc = "loop"
    /\ IF ev_i > Len(events)
       THEN /\ Finish("True", "none")
            /\ UNCHANGED <<iters, attempted>>
       ELSE /\ iters < MaxIterations
            /\ iters' = iters + 1
            /\ attempted' = Append(attempted, ev_i)
            /\ pc' = "save_or_get_event"
            /\ UNCHANGED <<result, fault>>
    /\ FreshIteration
    /\ UNCHANGED <<dbVars, events, ev_i, data_source_id,
                   total_exhibitors, processed_events, skipped_events,
                   cacheVars, webVer, today, runs, dbFails, served, call_log>>
    /\ UNCHANGED <<pipelineFrame, events_end>>
    /\ UNCHANGED <<resVars, event_errors>>

\* _save_or_get_event, then execute() lines 116-124
SaveOrGetEvent ==
    /\ pc = "save_or_get_event"
    /\ LET name == EventKey(EventName(CurEvent))
           found == RowsByName(eventTab, name)
           newRow == [Id |-> Len(eventTab) + 1, Name |-> name,
                      EventDate |-> parse_event_date(EventDateStr(CurEvent), today).value,
                      DataSourceId |-> data_source_id]
           \* lines 117-124: "if not event_id: continue", then the
           \* exhibitors_url check
           HaveId == IF ~Truthy(event_id') \/ EventExhibitorsUrl(CurEvent) = ""
                     THEN NextEvent
                     ELSE /\ pc' = "count"
                          /\ UNCHANGED ev_i
       IN  \/ /\ found # {}
              /\ \E i \in found : event_id' = eventTab[i].Id
              /\ HaveId
              /\ UNCHANGED <<eventTab, dbFails, event_errors>>
           \/ /\ found = {}
              /\ eventTab' = Insert(eventTab, newRow)
              /\ event_id' = newRow.Id
              /\ HaveId
              /\ UNCHANGED <<dbFails, event_errors>>
           \/ \* the first SELECT or the INSERT raises: return None
              /\ MayFail
              /\ dbFails' = dbFails + 1
              /\ event_errors' = event_errors \cup {ev_i}
              /\ event_id' = 0
              /\ HaveId
              /\ UNCHANGED eventTab
           \/ \* the SELECT after the INSERT raises: return None, row committed
              /\ MayFail
              /\ found = {}
              /\ dbFails' = dbFails + 1
              /\ event_errors' = event_errors \cup {ev_i}
              /\ eventTab' = Insert(eventTab, newRow)
              /\ event_id' = 0
              /\ HaveId
    /\ UNCHANGED <<dataSource, company, countryTab, events, data_source_id, db_count,
                   expected_count, exhibitors, ex_j, existing_names, country_id,
                   saved_count, total_exhibitors, processed_events, skipped_events,
                   cacheVars, webVer, today, runs, iters, probed, iter_fetch_calls,
                   iter_company0, iter_country0, last, outcomes, served, call_log>>
    /\ UNCHANGED stepFrame
    /\ UNCHANGED <<resVars, result, fault, attempted>>

\* _get_event_company_count, line 127
GetEventCompanyCount ==
    /\ pc = "count"
    /\ \/ /\ db_count' = CountCompany(event_id)
          /\ UNCHANGED dbFails
       \/ /\ MayFail
          /\ dbFails' = dbFails + 1
          /\ db_count' = 0
    /\ pc' = "probe"
    /\ UNCHANGED <<dbVars, events, ev_i, data_source_id, event_id,
                   expected_count, exhibitors, ex_j, existing_names, country_id,
                   saved_count, total_exhibitors, processed_events, skipped_events,
                   cacheVars, webVer, today, runs, iters, probed, iter_fetch_calls,
                   iter_company0, iter_country0, last, outcomes, served, call_log>>
    /\ UNCHANGED stepFrame
    /\ UNCHANGED <<resVars, result, fault, attempted, event_errors>>

\* parser.get_exhibitors_count_fast, line 128: the page is fetched or not,
\* reading it raises or not, and n is the count read from it
Probe ==
    /\ pc = "probe"
    /\ \E fetched \in BOOLEAN, raises \in BOOLEAN, n \in 0..MaxCount :
          /\ ProbeCache(EventExhibitorsUrl(CurEvent), fetched)
          /\ expected_count' = CountFast(fetched, raises, n)
          /\ probe_end' = ProbeEnd(fetched, raises)
    /\ probed' = TRUE
    /\ pc' = "compare"
    /\ UNCHANGED <<dbVars, events, ev_i, data_source_id, event_id, db_count,
                   exhibitors, ex_j, existing_names, country_id,
                   saved_count, total_exhibitors, processed_events, skipped_events,
                   webVer, today, runs, iters, dbFails, iter_fetch_calls,
                   iter_company0, iter_country0, last, outcomes, served, call_log>>
    /\ UNCHANGED <<pipelineFrame, events_end>>
    /\ UNCHANGED <<resVars, result, fault, attempted, event_errors>>

\* execute() lines 130-139
Compare ==
    /\ pc = "compare"
    /\ IF expected_count = 0
       THEN /\ NextEvent
            /\ UNCHANGED skipped_events
       ELSE IF UpToDate(db_count, expected_count)
       THEN /\ skipped_events' = skipped_events + 1
            /\ NextEvent
       ELSE /\ pc' = "get_exhibitors"
            /\ UNCHANGED <<ev_i, skipped_events>>
    /\ UNCHANGED <<dbVars, events, data_source_id, event_id, db_count,
                   expected_count, exhibitors, ex_j, existing_names, country_id,
                   saved_count, total_exhibitors, processed_events,
                   cacheVars, webVer, today, runs, iters, dbFails, probed, iter_fetch_calls,
                   iter_company0, iter_country0, last, outcomes, served, call_log>>
    /\ UNCHANGED stepFrame
    /\ UNCHANGED <<resVars, result, fault, attempted, event_errors>>

\* parser.get_exhibitors, line 142
GetExhibitors ==
    /\ pc = "get_exhibitors"
    /\ \E fetched \in BOOLEAN, lst \in Listings :
          /\ GetExhibitorsCache(EventExhibitorsUrl(CurEvent), fetched)
          /\ exhibitors' = IF served'.body = NoBody THEN <<>> ELSE lst
    /\ iter_fetch_calls' = iter_fetch_calls + 1
    /\ outcomes' = <<>>
    /\ pc' = "get_existing"
    /\ UNCHANGED <<dbVars, events, ev_i, data_source_id, event_id, db_count,
                   expected_count, ex_j, existing_names, country_id,
                   saved_count, total_exhibitors, processed_events, skipped_events,
                   webVer, today, runs, iters, dbFails, probed,
                   iter_company0, iter_country0, last, call_log>>
    /\ UNCHANGED stepFrame
    /\ UNCHANGED <<resVars, result, fault, attempted, event_errors>>

\* _get_existing_company_names, line 145
GetExisting ==
    /\ pc = "get_existing"
    /\ \/ /\ existing_names' = CompanyNames(event_id)
          /\ UNCHANGED dbFails
       \/ /\ MayFail
          /\ dbFails' = dbFails + 1
          /\ existing_names' = {}
    /\ ex_j' = 1
    /\ saved_count' = 0
    /\ pc' = "company_loop"
    /\ UNCHANGED <<dbVars, events, ev_i, data_source_id, event_id, db_count,
                   expected_count, exhibitors, country_id,
                   total_exhibitors, processed_events, skipped_events,
                   cacheVars, webVer, today, runs, iters, probed, iter_fetch_calls,
                   iter_company0, iter_country0, last, outcomes, served, call_log>>
    /\ UNCHANGED stepFrame
    /\ UNCHANGED <<resVars, result, fault, attempted, event_errors>>

\* what is observed when the reconciliation of one exhibitor starts
Snapshot(x, oc) ==
    LET key == SliceTo(ExhibitorName(x), CompanyNameLimit)
    IN  [eid |-> event_id, key |-> key,
         stored_before |-> \E i \in 1..Len(company) :
                              company[i].Name = key /\ company[i].EventId = event_id,
         stored_elsewhere |-> \E i \in 1..Len(company) :
                              company[i].Name = key /\ company[i].EventId # event_id,
         len_before |-> Len(company), outcome |-> oc]

\* end of _save_company / of the body of "for exhibitor in exhibitors"
NextExhibitor(oc) ==
    /\ last' = [last EXCEPT !.outcome = oc]
    /\ outcomes' = Append(outcomes, oc)
    /\ ex_j' = ex_j + 1
    /\ pc' = "company_loop"

\* "for exhibitor in exhibitors" with the in-memory filter, lines 149-151,
\* and the end of the event's iteration, lines 155-161
CompanyLoop ==
    /\ pc = "company_loop"
    /\ IF ex_j > Len(exhibitors)
       THEN /\ total_exhibitors' = total_exhibitors + saved_count
            /\ processed_events' = processed_events + 1
            /\ NextEvent
            /\ UNCHANGED <<ex_j, last, outcomes>>
       ELSE LET name == ExhibitorName(CurExhibitor)
            IN  /\ IF name # <<>> /\ CompanyKey(name) \notin existing_names
                   THEN /\ pc' = "save_company_check"
                        /\ last' = Snapshot(CurExhibitor, "pending")
                        /\ UNCHANGED <<ex_j, outcomes>>
                   ELSE /\ pc' = "company_loop"
                        /\ last' = Snapshot(CurExhibitor, "filtered")
                        /\ outcomes' = Append(outcomes, "filtered")
                        /\ ex_j' = ex_j + 1
                /\ UNCHANGED <<ev_i, total_exhibitors, processed_events>>
    /\ UNCHANGED <<dbVars, events, data_source_id, event_id, db_count,
                   expected_count, exhibitors, existing_names, country_id,
                   saved_count, skipped_events,
                   cacheVars, webVer, today, runs, iters, dbFails, probed, iter_fetch_calls,
                   iter_company0, iter_country0, served, call_log>>
    /\ UNCHANGED stepFrame
    /\ UNCHANGED <<resVars, result, fault, attempted, event_errors>>

\* _save_company, lines 359-371: the existence check
SaveCompanyCheck ==
    /\ pc = "save_company_check"
    /\ LET name == ExhibitorName(CurExhibitor)
       IN  \/ /\ name = <<>>
              /\ NextExhibitor("empty")
              /\ UNCHANGED dbFails
           \/ /\ name # <<>>
              /\ SelectCompany(CompanyKey(name), event_id) # {}
              /\ NextExhibitor("exists")
              /\ UNCHANGED dbFails
           \/ /\ name # <<>>
              /\ SelectCompany(CompanyKey(name), event_id) = {}
              /\ pc' = "save_company_country"
              /\ UNCHANGED <<dbFails, last, outcomes, ex_j>>
           \/ /\ name # <<>>
              /\ MayFail
              /\ dbFails' = dbFails + 1
              /\ NextExhibitor("error")
    /\ UNCHANGED <<dbVars, events, ev_i, data_source_id, event_id, db_count,
                   expected_count, exhibitors, existing_names, country_id,
                   saved_count, total_exhibitors, processed_events, skipped_events,
                   cacheVars, webVer, today, runs, iters, probed, iter_fetch_calls,
                   iter_company0, iter_country0, served, call_log>>
    /\ UNCHANGED stepFrame
    /\ UNCHANGED <<resVars, result, fault, attempted, event_errors>>

\* _save_company, lines 374-379, with _get_country_id
SaveCompanyCountry ==
    /\ pc = "save_company_country"
    /\ LET country == ExhibitorCountry(CurExhibitor)
           name == SliceTo(country, CountryNameLimit)
           found == RowsByName(countryTab, name)
           newRow == [Id |-> Len(countryTab) + 1, Name |-> name]
       IN  IF country = <<>>
           THEN /\ country_id' = DefaultCountryId
                /\ UNCHANGED <<countryTab, dbFails>>
           ELSE \/ /\ found # {}
                   /\ \E i \in found : country_id' = countryTab[i].Id
                   /\ UNCHANGED <<countryTab, dbFails>>
                \/ /\ found = {}
                   /\ countryTab' = Insert(countryTab, newRow)
                   /\ country_id' = newRow.Id
                   /\ UNCHANGED dbFails
                \/ \* the first SELECT or the INSERT raises: default id
                   /\ MayFail
                   /\ dbFails' = dbFails + 1
                   /\ country_id' = DefaultCountryId
                   /\ UNCHANGED countryTab
                \/ \* the SELECT after the INSERT raises: default id, row committed
                   /\ MayFail
                   /\ found = {}
                   /\ dbFails' = dbFails + 1
                   /\ countryTab' = Insert(countryTab, newRow)
                   /\ country_id' = DefaultCountryId
    /\ pc' = "save_company_insert"
    /\ UNCHANGED <<dataSource, eventTab, company, events, ev_i, data_source_id,
                   event_id, db_count, expected_count, exhibitors, ex_j,
                   existing_names, saved_count, total_exhibitors, processed_events,
                   skipped_events, cacheVars, webVer, today, runs, iters, probed,
                   iter_fetch_calls, iter_company0, iter_country0, last, outcomes,
                   served, call_log>>
    /\ UNCHANGED stepFrame
    /\ UNCHANGED <<resVars, result, fault, attempted, event_errors>>

\* _save_company, lines 385-409: the INSERT, and execute() line 153
SaveCompanyInsert ==
    /\ pc = "save_company_insert"
    /\ \/ /\ company' = Insert(company,
                           [Id |-> Len(company) + 1, EventId |-> event_id,
                            Name |-> CompanyKey(ExhibitorName(CurExhibitor)),
                            CountryId |-> country_id])
          /\ saved_count' = saved_count + 1
          /\ NextExhibitor("inserted")
          /\ UNCHANGED dbFails
       \/ /\ MayFail
          /\ dbFails' = dbFails + 1
          /\ NextExhibitor("error")
          /\ UNCHANGED <<company, saved_count>>
    /\ UNCHANGED <<dataSource, eventTab, countryTab, events, ev_i, data_source_id,
                   event_id, db_count, expected_count, exhibitors,
                   existing_names, country_id, total_exhibitors, processed_events,
                   skipped_events, cacheVars, webVer, today, runs, iters, probed,
                   iter_fetch_calls, iter_company0, iter_country0, served, call_log>>
    /\ UNCHANGED stepFrame
    /\ UNCHANGED <<resVars, result, fault, attempted, event_errors>>

\* variant: the handler leaves the loop
OnEventErrorBreak ==
    /\ ev_i' = Len(events) + 1
    /\ pc' = "loop"

\* "except Exception ... continue", lines 163-165
OnEventError == NextEvent

\* a statement of the loop body raises an exception its helper does not
\* handle: the rollback in execute_query (database.py 175-178) raises
\* pyodbc.Error while the helpers catch DatabaseError only
EventRaises ==
    /\ pc \in {"save_or_get_event", "count", "get_existing", "save_company_check",
               "save_company_country", "save_company_insert"}
    /\ MayFail
    /\ dbFails' = dbFails + 1
    /\ event_errors' = event_errors \cup {ev_i}
    /\ OnEventError
    /\ UNCHANGED <<dbVars, events, data_source_id, event_id, db_count,
                   expected_count, exhibitors, ex_j, existing_names, country_id,
                   saved_count, total_exhibitors, processed_events, skipped_events,
                   cacheVars, webVer, today, runs, iters, probed, iter_fetch_calls,
                   iter_company0, iter_country0, last, outcomes, served, call_log>>
    /\ UNCHANGED stepFrame
    /\ UNCHANGED <<resVars, result, fault, attempted>>

\* variant: run() always reports success
ExitCodeZero(r) == 0

\* run() lines 145 and 152
ExitCode(r) == IF r = "True" THEN 0 ELSE 1

\* the finally clause of run(), line 154-155, with _cleanup and
\* _cleanup_module, and the return of run()
Cleanup ==
    /\ pc = "cleanup"
    /\ session_closes' = IF session_acquired THEN session_closes + 1 ELSE session_closes
    /\ db_disconnects' = IF db_acquired THEN db_disconnects + 1 ELSE db_disconnects
    /\ exit_code' = ExitCode(result)
    /\ pc' = "off"
    /\ UNCHANGED <<db_acquired, session_acquired, result, fault, attempted, event_errors>>
    /\ UNCHANGED <<dbVars, events, ev_i, data_source_id, event_id, db_count,
                   expected_count, exhibitors, ex_j, existing_names, country_id,
                   saved_count, total_exhibitors, processed_events, skipped_events,
                   cacheVars, webVer, today, runs, iters, dbFails, probed,
                   iter_fetch_calls, iter_company0, iter_country0, last, outcomes,
                   served, call_log>>
    /\ UNCHANGED stepFrame

\* the process is terminated between two statements
Kill ==
    /\ pc # "off"
    /\ pc' = "off"
    /\ FreshProcess
    /\ events' = <<>> /\ ev_i' = 1
    /\ data_source_id' = 0
    /\ FreshIteration
    /\ total_exhibitors' = 0 /\ processed_events' = 0 /\ skipped_events' = 0
    /\ cached_url' = "unset" /\ cached_html' = NoBody
    /\ served' = NoServed /\ call_log' = <<>>
    /\ killed' = IF killed = KillsNotObserved THEN killed
                 ELSE IF pc \in {"save_company_check", "save_company_country",
                                  "save_company_insert"}
                 THEN [event |-> CurEvent, exhibitors |-> exhibitors]
                 ELSE NoKill
    /\ UNCHANGED <<dbVars, webVer, today, runs, iters, dbFails>>
    /\ UNCHANGED <<dateVars, pagerVars, fetchVars, pageVars, eventsVars, filterVars, twoVars, sourceVars>>

\* the components that are not running
Instances == 1..MaxInstances

\* an instance that is not running
OffInstance == [pc |-> "off", j |-> 1, existing |-> {}, country_id |-> 0, passed |-> None]

TwoIdle == two_listing = <<>> /\ inst = [p \in Instances |-> OffInstance]

SourceIdle == source_events = <<>> /\ source_listing = [u \in Urls |-> <<>>]

FilterIdle == ff_events = <<>> /\ ff_i = 1 /\ future_events = <<>> /\ ff_pc = "idle"

EventsIdle == cards = <<>> /\ card_i = 1 /\ ge_events = <<>> /\ ge_pc = "idle"

DateIdle == date_pc = "idle" /\ date_str = <<>> /\ date_result = [raised |-> FALSE, value |-> <<>>]

NoResponse == [fetch |-> "none", body |-> "none", json |-> "none", total |-> 0]

PagerIdle ==
    /\ pg_pc = "idle" /\ declared_total = 0 /\ served_pages = 0
    /\ page_index = 0 /\ max_pages = 0 /\ all_exhibitors = <<>>
    /\ requests = <<>> /\ totals_agree = TRUE /\ page_failed = FALSE
    /\ response = NoResponse

NoPage == [fetched |-> FALSE, raises |-> FALSE, config |-> "absent", row_count |-> None,
           total |-> None, rows |-> <<>>, api_pages |-> 0]

PageIdle ==
    /\ page = NoPage /\ pp_pc = "idle" /\ probe_count = None
    /\ gx_result = <<>> /\ gx_paginated = FALSE /\ gx_fallback = FALSE
    /\ gx_end = "none"

NoOutcome == [kind |-> "none", status |-> 0, wire |-> 0]

FetchIdle ==
    /\ fu_pc = "idle" /\ max_retries = DefaultMaxRetries /\ delay = 1
    /\ attempt = 0 /\ total_left = 0
    /\ call_errors = 0 /\ call_wire = 0 /\ call_slept = 0
    /\ session_outcome = NoOutcome /\ fetch_result = "pending"
    /\ attempt_log = <<>> /\ waits = <<>> /\ gap = 0

\* the reconciliation pipeline before its first run
\* no run of execute() in progress
RunIdle ==
    /\ pc = "off"
    /\ events = <<>> /\ ev_i = 1
    /\ data_source_id = 0 /\ event_id = 0
    /\ db_count = 0 /\ expected_count = 0
    /\ exhibitors = <<>> /\ ex_j = 1
    /\ existing_names = {} /\ country_id = 0 /\ saved_count = 0
    /\ total_exhibitors = 0 /\ processed_events = 0 /\ skipped_events = 0
    /\ cached_url = "unset" /\ cached_html = NoBody
    /\ webVer = [u \in Urls |-> 0]
    /\ runs = 0 /\ iters = 0 /\ dbFails = 0
    /\ probed = FALSE /\ iter_fetch_calls = 0
    /\ probe_end = "none" /\ events_end = "none"
    /\ iter_company0 = 0 /\ iter_country0 = 0
    /\ last = NoLast /\ outcomes = <<>> /\ served = NoServed /\ call_log = <<>>
    /\ db_acquired = FALSE /\ session_acquired = FALSE
    /\ db_disconnects = 0 /\ session_closes = 0
    /\ result = "none" /\ exit_code = None
    /\ fault = "none" /\ attempted = <<>> /\ event_errors = {}

PipelineIdle ==
    /\ dataSource = <<>> /\ eventTab = <<>> /\ company = <<>> /\ countryTab = <<>>
    /\ RunIdle

Init ==
    /\ PipelineIdle
    /\ killed = KillsNotObserved
    /\ PageIdle
    /\ EventsIdle
    /\ FilterIdle
    /\ TwoIdle
    /\ SourceIdle
    /\ today \in Dates
    /\ DateIdle
    /\ PagerIdle
    /\ FetchIdle

vars == <<dbVars, runVars, cacheVars, webVer, today, obsVars, dateVars, pagerVars,
          fetchVars, lifeVars, killed, probe_end, events_end, pageVars, eventsVars, filterVars, twoVars, sourceVars>>

Next ==
    \/ StartRun
    \/ Setup
    \/ InitModule
    \/ TestConnection
    \/ EnsureDataSource
    \/ GetEvents
    \/ LoopHead
    \/ SaveOrGetEvent
    \/ GetEventCompanyCount
    \/ Probe
    \/ Compare
    \/ GetExhibitors
    \/ GetExisting
    \/ CompanyLoop
    \/ SaveCompanyCheck
    \/ SaveCompanyCountry
    \/ SaveCompanyInsert
    \/ EventRaises
    \/ Cleanup
    \/ Kill

Spec == Init /\ [][Next]_vars

\* the same pipeline with the kill record kept
ResumeInit ==
    /\ PipelineIdle
    /\ killed = NoKill
    /\ PageIdle
    /\ EventsIdle
    /\ FilterIdle
    /\ TwoIdle
    /\ SourceIdle
    /\ today \in Dates
    /\ DateIdle
    /\ PagerIdle
    /\ FetchIdle

SpecResume == ResumeInit /\ [][Next]_vars


(***************************************************************************)
(* Properties of the reconciliation (specification Spec)                   *)
(***************************************************************************)
CompanyRowsFor(key, eid) ==
    {i \in 1..Len(company) : company[i].Name = key /\ company[i].EventId = eid}

\* C1: the Company table never holds two rows with the same
\* (name[:250], EventId) pair, whatever the runs, the listings (repeated names
\* included) and the DatabaseErrors (a failed pre-fetch of the existing names
\* included).
C1_NoDuplicateCompany ==
    \A i, j \in 1..Len(company) :
        (company[i].Name = company[j].Name /\ company[i].EventId = company[j].EventId)
            => i = j

\* C1 witness: the pre-fetch returned the empty set although the event had
\* rows (its query failed), and _save_company then found the name stored.
C1_Witness ==
    /\ pc = "company_loop"
    /\ existing_names = {}
    /\ \E i \in 1..iter_company0 : company[i].EventId = event_id
    /\ last.outcome = "exists"
    /\ last.stored_before
    /\ Len(company) = last.len_before

\* C2: once the probe has returned in an event's iteration with the stored
\* count read for the event >= the probed count, get_exhibitors is not called
\* in that iteration and no Company or Country row is written in it.
C2_ShortCircuit ==
    (probed /\ db_count >= expected_count) =>
        /\ iter_fetch_calls = 0
        /\ Len(company) = iter_company0
        /\ Len(countryTab) = iter_country0
        /\ pc \in {"compare", "loop", "off"}

\* C2 witness: an event with stored rows and a non-zero probed count was
\* skipped as up to date.
C2_Witness ==
    /\ pc = "loop"
    /\ probed
    /\ expected_count > 0
    /\ db_count >= expected_count
    /\ skipped_events > 0

\* C3: deduplication is per event.  When the reconciliation of an exhibitor
\* has ended: if its name[:250] was stored for this event, no row was added;
\* if it was not stored for this event (stored for another event or not) and
\* no statement failed, exactly one row was added, with this EventId.
C3_PerEventDedup ==
    (last.outcome \notin {"none", "pending"}) =>
        /\ last.stored_before => Len(company) = last.len_before
        /\ (~last.stored_before /\ last.outcome # "error") =>
              /\ Len(company) = last.len_before + 1
              /\ company[Len(company)].Name = last.key
              /\ company[Len(company)].EventId = last.eid
        /\ (~last.stored_before /\ last.outcome = "error") =>
              Len(company) = last.len_before

\* C3 witness: a name stored for one event was discovered for another event
\* and inserted once for it.
C3_Witness ==
    /\ last.outcome = "inserted"
    /\ last.stored_elsewhere
    /\ ~last.stored_before
    /\ Cardinality(CompanyRowsFor(last.key, last.eid)) = 1
    /\ \E i \in 1..Len(company) :
          company[i].Name = last.key /\ company[i].EventId # last.eid

\* pairs of positions of the current listing, both reconciled, that hold
\* distinct names with the same first 250 characters
CollidingPairs ==
    {p \in (1..Len(outcomes)) \X (1..Len(outcomes)) :
        /\ p[1] < p[2]
        /\ ExhibitorName(exhibitors[p[1]]) # ExhibitorName(exhibitors[p[2]])
        /\ SliceTo(ExhibitorName(exhibitors[p[1]]), CompanyNameLimit)
             = SliceTo(ExhibitorName(exhibitors[p[2]]), CompanyNameLimit)}

\* C4: two distinct names of one listing that agree on their first 250
\* characters give one Company row: when the first was inserted the second
\* is rejected by the existence check of _save_company (not by the in-memory
\* set, and "error" only if that SELECT raised), and without a failed
\* statement the event holds exactly one row for the truncated name.
C4_TruncationCollision ==
    \A p \in CollidingPairs :
        LET key == SliceTo(ExhibitorName(exhibitors[p[1]]), CompanyNameLimit)
        IN  /\ Cardinality(CompanyRowsFor(key, event_id)) <= 1
            /\ outcomes[p[1]] = "inserted" =>
                  /\ outcomes[p[2]] \in {"exists", "error"}
                  /\ dbFails = 0 => outcomes[p[2]] = "exists"
            /\ ("error" \notin {outcomes[p[1]], outcomes[p[2]]}) =>
                  Cardinality(CompanyRowsFor(key, event_id)) = 1

\* C4 witness: both names first appeared in this run; the first was inserted
\* and the second found existing.
C4_Witness ==
    \E p \in CollidingPairs :
        /\ outcomes[p[1]] = "inserted"
        /\ outcomes[p[2]] = "exists"
        /\ existing_names = {}
        /\ Len(company) = 1


(***************************************************************************)
(* Specification SpecDate: _parse_event_date applied to date strings built *)
(* from tokens joined by "." and "-".                                      *)
(***************************************************************************)
DayTokens == {<<"1","2">>, <<"1","4">>}
MonthTokens == {<<"0","3">>}
YearTokens == {<<"2","0","2","5">>}

DateTokens ==
    DayTokens \cup MonthTokens \cup YearTokens
        \cup {<<>>, <<"a","b">>, <<"0">>, <<"^2">>}

\* separator after the i-th token: all ".", all "-", or "-" then "."
SeparatorPatterns == {"dots", "dashes", "range"}

Separator(pat, i) ==
    CASE pat = "dots"   -> "."
      [] pat = "dashes" -> "-"
      [] OTHER          -> IF i = 1 THEN "-" ELSE "."

RECURSIVE JoinFrom(_, _, _)
JoinFrom(toks, pat, i) ==
    IF i > Len(toks) THEN <<>>
    ELSE IF i = Len(toks) THEN toks[i]
    ELSE toks[i] \o <<Separator(pat, i)>> \o JoinFrom(toks, pat, i + 1)

DateInputs ==
    {JoinFrom(toks, pat, 1) :
        toks \in UNION {[1..k -> DateTokens] : k \in 0..MaxDateParts},
        pat \in SeparatorPatterns}

dateFrame == <<dbVars, runVars, cacheVars, webVer, today, obsVars, pagerVars, fetchVars,
               lifeVars, killed, probe_end, events_end, pageVars, eventsVars, filterVars, twoVars, sourceVars>>

ParseDate ==
    /\ date_pc = "start"
    /\ date_result' = parse_event_date(date_str, today)
    /\ date_pc' = "done"
    /\ UNCHANGED date_str
    /\ UNCHANGED dateFrame

DateInit ==
    /\ PipelineIdle
    /\ killed = KillsNotObserved
    /\ PageIdle
    /\ EventsIdle
    /\ FilterIdle
    /\ TwoIdle
    /\ SourceIdle
    /\ today \in Dates
    /\ PagerIdle
    /\ FetchIdle
    /\ date_pc = "start"
    /\ date_str \in DateInputs
    /\ date_result = [raised |-> FALSE, value |-> <<>>]

DateNext == ParseDate

SpecDate == DateInit /\ [][DateNext]_vars

\* a date-range string d1-d2.MM.YYYY with d1 < d2, as [d1, d2, m, y]
RangeStrings ==
    {r \in [d1 : DayTokens, d2 : DayTokens, m : MonthTokens, y : YearTokens] :
        StrToInt(r.d1) < StrToInt(r.d2)}

RangeText(r) == r.d1 \o <<"-">> \o r.d2 \o <<".">> \o r.m \o <<".">> \o r.y

\* C5: for a date-range string DD-DD.MM.YYYY with day tokens d1 < d2 the
\* normalised date is the later day, YYYY-MM-d2 ("12-14.03.2025" gives
\* "2025-03-14").
C5_RangeStoresLaterDay ==
    \A r \in RangeStrings :
        (date_pc = "done" /\ date_str = RangeText(r)) =>
            date_result.value = r.y \o <<"-">> \o r.m \o <<"-">> \o r.d2

\* the dot/dash-separated parts of a date string
PartsOf(s) == Split(Replace(s, "-", "."), ".")

HasYearToken(s) ==
    \E i \in 1..Len(PartsOf(s)) : Len(PartsOf(s)[i]) = 4 /\ IsDigit(PartsOf(s)[i])

HasMonthToken(s) ==
    \E i \in 1..Len(PartsOf(s)) : Len(PartsOf(s)[i]) <= 2 /\ IsDigit(PartsOf(s)[i])

IsDateText(v) ==
    /\ Len(v) = 10
    /\ v[5] = "-" /\ v[8] = "-"
    /\ \A i \in {1, 2, 3, 4, 6, 7, 9, 10} : v[i] \in DecimalDigits

\* C6: _parse_event_date never raises and always returns a YYYY-MM-DD text;
\* for an empty string, a string of fewer than three parts, or one without a
\* four-digit year or without a month token, the text is the current date.
C6_FallsBackToToday ==
    date_pc = "done" =>
        /\ ~date_result.raised
        /\ IsDateText(date_result.value)
        /\ (\/ date_str = <<>>
            \/ Len(PartsOf(date_str)) < 3
            \/ ~HasYearToken(date_str)
            \/ ~HasMonthToken(date_str)) => date_result.value = today

\* C6 witness: a string of three or more parts without a year, holding a
\* digit token on which int() raises, was normalised to the current date.
C6_Witness ==
    /\ date_pc = "done"
    /\ Len(PartsOf(date_str)) >= 3
    /\ ~HasYearToken(date_str)
    /\ \E i \in 1..Len(PartsOf(date_str)) :
          IsDigit(PartsOf(date_str)[i]) /\ IntRaises(PartsOf(date_str)[i])
    /\ date_result.value = today


(***************************************************************************)
(* Specification SpecPager: TargiKielceParser._fetch_exhibitors_from_api   *)
(* against an API that serves served_pages pages with rows and empty views *)
(* after them.                                                             *)
(***************************************************************************)
MaxDeclared == 22
MaxServerPages == 21

\* pager.get('total', 10); None stands for a configuration without 'total'
TotalPages(declared) == IF declared = None THEN DefaultTotalPages ELSE declared

\* line 307: max_pages = min(total_pages, 20)
InitialMaxPages(total) == Min(total, PageCeiling)

\* variant: the response total is taken without the ceiling
UpdatedMaxPagesUncapped(total) == total

\* variant: the response total is ignored
UpdatedMaxPagesStale(total) == max_pages

\* line 335: max_pages = min(resp_pager['total'], 20)
UpdatedMaxPages(total) == Min(total, PageCeiling)

\* variant: the loop stops one page early
LoopContinuesStrict(index, maxp) == index < maxp

\* line 309: while page_index <= max_pages
LoopContinues(index, maxp) == index <= maxp

\* the exhibitor rows parsed from the view of page p
RowsOfPage(p) == <<[page |-> p, row |-> 1], [page |-> p, row |-> 2]>>

RECURSIVE RowsOfPages(_)
RowsOfPages(k) == IF k = 0 THEN <<>> ELSE RowsOfPages(k - 1) \o RowsOfPage(k)

\* the 'total' a response may carry in settings.pager; 0 stands for none
ResponseTotals == {0, 1, PageCeiling, PageCeiling + 3, TotalPages(declared_total)}

pagerFrame == <<dbVars, runVars, cacheVars, webVer, today, obsVars, dateVars, fetchVars,
                lifeVars, killed, probe_end, events_end, pageVars, eventsVars, filterVars, twoVars, sourceVars>>

\* lines 296-307
FetchStart ==
    /\ pg_pc = "start"
    /\ page_index' = 1
    /\ max_pages' = InitialMaxPages(TotalPages(declared_total))
    /\ pg_pc' = "loop"
    /\ UNCHANGED <<declared_total, served_pages, all_exhibitors, requests,
                   totals_agree, page_failed, response>>
    /\ UNCHANGED pagerFrame

\* what the body of a fetched response may be: not JSON, the JSON value {},
\* or a {view, settings} envelope
JsonBodies == {"malformed", "empty", "envelope"}

\* variant: the body is not checked
FetchJsonUnchecked(fetched, body) ==
    IF fetched = "None" THEN "None" ELSE "data"

\* ScrapingEngine.fetch_json, engine.py lines 134-145: None when fetch_url
\* returned None or response.json() raised, else the decoded value
FetchJson(fetched, body) ==
    IF fetched = "None" THEN "None"
    ELSE IF body = "malformed" THEN "None"
    ELSE IF body = "empty" THEN "{}"
    ELSE "data"

\* one iteration of the while loop, lines 309-357
FetchPage ==
    /\ pg_pc = "loop"
    /\ LoopContinues(page_index, max_pages)
    /\ requests' = Append(requests, page_index)
    /\ \E fetched \in {"None", "response"}, body \in JsonBodies :
          LET data == FetchJson(fetched, body)
          IN  IF data \in {"None", "{}"}
              THEN \* "if not response", lines 327-329
                   /\ response' = [fetch |-> fetched,
                                   body |-> IF fetched = "None" THEN "none" ELSE body,
                                   json |-> data, total |-> 0]
                   /\ page_failed' = TRUE
                   /\ pg_pc' = "done"
                   /\ UNCHANGED <<page_index, max_pages, all_exhibitors, totals_agree>>
              ELSE \E t \in ResponseTotals, parsable \in BOOLEAN :
                   LET maxp == IF t # 0 THEN UpdatedMaxPages(t) ELSE max_pages
                   IN  /\ response' = [fetch |-> fetched, body |-> body,
                                       json |-> data, total |-> t]
                       /\ max_pages' = maxp
                       /\ totals_agree' =
                              (totals_agree /\ t \in {0, TotalPages(declared_total)})
                       /\ IF page_index > served_pages
                          THEN \* empty view
                               /\ pg_pc' = "done"
                               /\ UNCHANGED <<page_index, all_exhibitors, page_failed>>
                          ELSE IF ~parsable
                          THEN \* a view without exhibitor rows
                               /\ page_failed' = TRUE
                               /\ pg_pc' = "done"
                               /\ UNCHANGED <<page_index, all_exhibitors>>
                          ELSE /\ all_exhibitors' = all_exhibitors \o RowsOfPage(page_index)
                               /\ IF page_index >= maxp
                                  THEN pg_pc' = "done" /\ UNCHANGED page_index
                                  ELSE pg_pc' = "loop" /\ page_index' = page_index + 1
                               /\ UNCHANGED page_failed
    /\ UNCHANGED <<declared_total, served_pages>>
    /\ UNCHANGED pagerFrame

\* the loop condition is false, line 359
FetchExit ==
    /\ pg_pc = "loop"
    /\ ~LoopContinues(page_index, max_pages)
    /\ pg_pc' = "done"
    /\ UNCHANGED <<declared_total, served_pages, page_index, max_pages,
                   all_exhibitors, requests, totals_agree, page_failed, response>>
    /\ UNCHANGED pagerFrame

PagerInit ==
    /\ PipelineIdle
    /\ killed = KillsNotObserved
    /\ PageIdle
    /\ EventsIdle
    /\ FilterIdle
    /\ TwoIdle
    /\ SourceIdle
    /\ today \in Dates
    /\ DateIdle
    /\ FetchIdle
    /\ pg_pc = "start"
    /\ declared_total \in {None} \cup (0..MaxDeclared)
    /\ served_pages \in 0..MaxServerPages
    /\ page_index = 0 /\ max_pages = 0 /\ all_exhibitors = <<>>
    /\ requests = <<>> /\ totals_agree = TRUE /\ page_failed = FALSE
    /\ response = NoResponse

PagerNext == FetchStart \/ FetchPage \/ FetchExit

SpecPager == PagerInit /\ [][PagerNext]_vars

\* the pagination has ended against an API that served its served_pages
\* (<= 20) pages and then an empty one, every request answered with rows
\* where there are rows, the declared total not below the pages served and
\* not contradicted by a response
CompleteServerRun ==
    /\ pg_pc = "done"
    /\ ~page_failed
    /\ totals_agree
    /\ served_pages <= PageCeiling
    /\ TotalPages(declared_total) >= served_pages

\* C7 as stated: all K pages' rows in page order, exactly K requests when the
\* declared total equals K and exactly K+1 when it exceeds K.
C7_AsStated ==
    CompleteServerRun =>
        /\ all_exhibitors = RowsOfPages(served_pages)
        /\ TotalPages(declared_total) = served_pages => Len(requests) = served_pages
        /\ TotalPages(declared_total) > served_pages => Len(requests) = served_pages + 1

\* C7 amended: all K pages' rows in page order; exactly K requests when the
\* declared total equals K or K = 20, exactly K+1 requests when the declared
\* total exceeds K and K < 20.
C7_PaginationComplete ==
    CompleteServerRun =>
        /\ all_exhibitors = RowsOfPages(served_pages)
        /\ (TotalPages(declared_total) = served_pages \/ served_pages = PageCeiling)
              => Len(requests) = served_pages
        /\ (TotalPages(declared_total) > served_pages /\ served_pages < PageCeiling)
              => Len(requests) = served_pages + 1

\* C7 witness: 20 pages served under a larger declared total, 20 requests.
C7_Witness ==
    /\ CompleteServerRun
    /\ served_pages = PageCeiling
    /\ TotalPages(declared_total) > PageCeiling
    /\ Len(requests) = PageCeiling
    /\ all_exhibitors = RowsOfPages(PageCeiling)

\* C8: one call issues at most 20 page requests, with indexes 1, 2, 3, ...
C8_PageCeiling ==
    /\ Len(requests) <= PageCeiling
    /\ \A i \in 1..Len(requests) : requests[i] = i

\* C8 witness: the ceiling was reached although the declared total and a
\* response total were larger.
C8_Witness ==
    /\ pg_pc = "done"
    /\ Len(requests) = PageCeiling
    /\ declared_total > PageCeiling
    /\ ~totals_agree
    /\ served_pages > PageCeiling


\* a page request was made in this step and answered with an envelope
PageAnswered == requests' # requests /\ response'.json = "data"

\* C24: after a page response that carries a non-zero pager total t the
\* stopping bound is min(t, 20) (it is left alone by a response without a
\* total); when the current page index is at or past that bound the
\* pagination ends with this page, and when it is below the bound and the page
\* had rows the next page is requested, also past the initial estimate.
C24_ServerTotalAuthoritative ==
    [][PageAnswered =>
          /\ response'.total # 0 => max_pages' = Min(response'.total, PageCeiling)
          /\ response'.total = 0 => max_pages' = max_pages
          /\ page_index >= max_pages' => pg_pc' = "done" /\ page_index' = page_index
          /\ (page_index < max_pages' /\ all_exhibitors' # all_exhibitors) =>
                pg_pc' = "loop" /\ page_index' = page_index + 1]_vars

\* C24 witness: the configuration declared one page, the first response
\* declared more, and pages 2 and 3 were requested.
C24_Witness ==
    /\ declared_total = 1
    /\ Len(requests) = 3
    /\ response.total = PageCeiling + 3
    /\ max_pages = PageCeiling
    /\ Len(all_exhibitors) = Len(RowsOfPages(3))


(***************************************************************************)
(* Specification SpecCache: one TargiKielceParser driven directly with     *)
(* probes and get_exhibitors calls in any order while the site changes.    *)
(***************************************************************************)
MaxCalls == 4
MaxVer == 1

cacheFrame == <<dbVars, runVars, today, dateVars, pagerVars, fetchVars, lifeVars,
                killed, probe_end, events_end, pageVars, eventsVars, filterVars, twoVars, sourceVars, runs, iters, dbFails, probed, iter_fetch_calls, iter_company0,
                iter_country0, last, outcomes>>

\* get_exhibitors_count_fast(u)
CacheProbe(u) ==
    /\ Len(call_log) < MaxCalls
    /\ \E fetched \in BOOLEAN :
          /\ ProbeCache(u, fetched)
          /\ call_log' = Append(call_log,
                [op |-> "probe", url |-> u, from_cache |-> FALSE,
                 body |-> IF fetched THEN PageBody(u) ELSE NoBody])
    /\ UNCHANGED <<served, webVer>>
    /\ UNCHANGED cacheFrame

\* get_exhibitors(u)
CacheGetExhibitors(u) ==
    /\ Len(call_log) < MaxCalls
    /\ \E fetched \in BOOLEAN :
          /\ GetExhibitorsCache(u, fetched)
          /\ call_log' = Append(call_log,
                [op |-> "get", url |-> u, from_cache |-> served'.from_cache,
                 body |-> served'.body])
    /\ UNCHANGED webVer
    /\ UNCHANGED cacheFrame

\* the site publishes a new version of the listing page of u
PageChanges(u) ==
    /\ webVer[u] < MaxVer
    /\ webVer' = [webVer EXCEPT ![u] = webVer[u] + 1]
    /\ UNCHANGED <<cacheVars, served, call_log>>
    /\ UNCHANGED cacheFrame

CacheInit ==
    /\ PipelineIdle
    /\ killed = KillsNotObserved
    /\ PageIdle
    /\ EventsIdle
    /\ FilterIdle
    /\ TwoIdle
    /\ SourceIdle
    /\ today \in Dates
    /\ DateIdle
    /\ PagerIdle
    /\ FetchIdle

CacheNext ==
    \/ \E u \in Urls : CacheProbe(u)
    \/ \E u \in Urls : CacheGetExhibitors(u)
    \/ \E u \in Urls : PageChanges(u)

SpecCache == CacheInit /\ [][CacheNext]_vars

\* no probe among the calls strictly between positions i and k
NoProbeBetween(i, k) == \A j \in (i + 1)..(k - 1) : call_log[j].op # "probe"

\* C9: the cache is consumed by its first use.  Right after a get_exhibitors
\* served from the cache the slot is empty, and a later get_exhibitors of
\* the same URL with no probe in between is not served from the cache (it
\* requests the page from the network).
C9_CacheConsumed ==
    /\ (call_log # <<>> /\ call_log[Len(call_log)].op = "get"
           /\ call_log[Len(call_log)].from_cache)
          => (cached_url = "None" /\ cached_html = NoBody)
    /\ \A i, k \in 1..Len(call_log) :
          (/\ i < k
           /\ call_log[i].op = "get" /\ call_log[i].from_cache
           /\ call_log[k].op = "get" /\ call_log[k].url = call_log[i].url
           /\ NoProbeBetween(i, k))
              => ~call_log[k].from_cache

\* C9 witness: a get_exhibitors served from the cache, then the same URL
\* fetched from the network and given the page as it is now.
C9_Witness ==
    \E i \in 1..(Len(call_log) - 1) :
        /\ call_log[i].op = "get" /\ call_log[i].from_cache
        /\ call_log[i + 1].op = "get" /\ call_log[i + 1].url = call_log[i].url
        /\ ~call_log[i + 1].from_cache
        /\ call_log[i + 1].body # NoBody
        /\ call_log[i + 1].body # call_log[i].body

\* C10 as stated: a get_exhibitors(V) that follows a probe of another URL U
\* leaves the cache empty, and a later get_exhibitors(U) with no probe in
\* between is not served from the cache.
C10_InvalidatedByOtherUrl ==
    \A i \in 1..Len(call_log) :
        (/\ i > 1
         /\ call_log[i].op = "get"
         /\ call_log[i - 1].op = "probe" /\ call_log[i - 1].body # NoBody
         /\ call_log[i - 1].url # call_log[i].url)
            => /\ (i = Len(call_log)) => cached_html = NoBody
               /\ \A k \in (i + 1)..Len(call_log) :
                     (/\ call_log[k].op = "get"
                      /\ call_log[k].url = call_log[i - 1].url
                      /\ NoProbeBetween(i, k))
                         => ~call_log[k].from_cache


(***************************************************************************)
(* Specification SpecPage: TargiKielceParser.get_exhibitors_count_fast and *)
(* get_exhibitors applied to one listing page.  A page is described by     *)
(* what the parser reads from it: whether engine.get_html_content returns  *)
(* a body, whether reading it raises, the embedded configuration (kind,    *)
(* pager.rowCount, pager.total), its table rows, and the number of pages   *)
(* with rows the exhibitor-search API serves for it.                       *)
(***************************************************************************)
MaxRows == 3
MaxPageTotal == 3
MaxApiPages == 2

\* the [data-vue-app="exhibitors-list"] element and its v-init:settings:
\* missing or empty, not JSON, JSON without a searchUrl, JSON whose pager is
\* not an object, JSON with searchUrl and pager
ConfigKinds == {"absent", "malformed", "no_search_url", "pager_invalid", "ok"}

\* a table row: with a div.main-title holding a link, with cell text only,
\* without either
RowKinds == {"name_link", "text", "blank"}

PageUrl == "u1"

Pages ==
    [fetched : BOOLEAN, raises : BOOLEAN, config : ConfigKinds,
     row_count : {None} \cup (0..MaxCount),
     total : {None} \cup (0..MaxPageTotal),
     rows : SeqsUpTo(RowKinds, MaxRows),
     api_pages : 0..MaxApiPages]

\* _extract_exhibitors_api_url returns (search_url, settings_data) rather than
\* (None, None): lines 200-219
ExtractsSettings(p) == p.config = "ok"

\* variant: the default of _fetch_exhibitors_from_api, line 302
DeclaredRowCountDefault250(p) == IF p.row_count = None THEN 250 ELSE p.row_count

\* pager.get('rowCount', 0), lines 123-124 and 171-172
DeclaredRowCount(p) == IF p.row_count = None THEN 0 ELSE p.row_count

\* variant: every table row counts
CountRowsAll(rows) == Len(rows)

\* lines 127-128: the rows of soup.select('table tr') with a 'div.main-title a'
CountRows(rows) == Cardinality({i \in 1..Len(rows) : rows[i] = "name_link"})

\* the count get_exhibitors_count_fast reads from a page, lines 119-129
PageCount(p) ==
    IF ExtractsSettings(p) THEN DeclaredRowCount(p) ELSE CountRows(p.rows)

get_exhibitors_count_fast(p) == CountFast(p.fetched, p.raises, PageCount(p))

\* _parse_exhibitors_from_html, lines 372-431: one exhibitor per table row
\* that has a name link or a cell text (the page has no exhibitor cards)
RECURSIVE ParseExhibitorsFromHtml(_, _)
ParseExhibitorsFromHtml(rows, i) ==
    IF i > Len(rows) THEN <<>>
    ELSE IF rows[i] \in {"name_link", "text"}
    THEN <<[page |-> 0, row |-> i]>> \o ParseExhibitorsFromHtml(rows, i + 1)
    ELSE ParseExhibitorsFromHtml(rows, i + 1)

pageFrame == <<dbVars, runVars, webVer, today, runs, iters, dbFails, probed,
               iter_fetch_calls, iter_company0, iter_country0, last, outcomes,
               call_log, dateVars, fetchVars, lifeVars, killed, probe_end, events_end,
               eventsVars, filterVars, twoVars, sourceVars>>

\* get_exhibitors_count_fast(PageUrl)
PageProbe ==
    /\ pp_pc = "start"
    /\ ProbeCache(PageUrl, page.fetched)
    /\ probe_count' = get_exhibitors_count_fast(page)
    /\ pp_pc' = "probed"
    /\ UNCHANGED <<page, gx_result, gx_paginated, gx_fallback, gx_end>>
    /\ UNCHANGED <<served, pagerVars>>
    /\ UNCHANGED pageFrame

\* variant: the HTML parse is made whatever the API returned
FallbackAlways(api_result) ==
    /\ gx_fallback' = TRUE
    /\ gx_result' = ParseExhibitorsFromHtml(page.rows, 1)

\* lines 182-183: the HTML fallback when the API gave nothing
Fallback(api_result) ==
    IF api_result = <<>>
    THEN /\ gx_fallback' = TRUE
         /\ gx_result' = ParseExhibitorsFromHtml(page.rows, 1)
    ELSE /\ gx_result' = api_result
         /\ UNCHANGED gx_fallback

\* get_exhibitors(PageUrl), lines 147-179, up to the call of
\* _fetch_exhibitors_from_api
PageGetExhibitors ==
    /\ pp_pc \in {"start", "probed"}
    /\ GetExhibitorsCache(PageUrl, page.fetched)
    /\ LET Return(end) ==
               /\ gx_end' = end
               /\ gx_result' = <<>>
               /\ pp_pc' = "done"
               /\ UNCHANGED <<gx_paginated, gx_fallback, pagerVars>>
       IN  IF served'.body = NoBody THEN Return("no_body")
           ELSE IF page.raises THEN Return("raised")
           ELSE IF ExtractsSettings(page) /\ DeclaredRowCount(page) = 0
           THEN Return("row_count_zero")
           ELSE IF ExtractsSettings(page)
           THEN /\ gx_paginated' = TRUE
                /\ pg_pc' = "start"
                /\ declared_total' = page.total
                /\ served_pages' = page.api_pages
                /\ pp_pc' = "paginating"
                /\ UNCHANGED <<page_index, max_pages, all_exhibitors, requests,
                               totals_agree, page_failed, response>>
                /\ UNCHANGED <<gx_result, gx_fallback, gx_end>>
           ELSE /\ Fallback(<<>>)
                /\ gx_end' = "listed"
                /\ pp_pc' = "done"
                /\ UNCHANGED <<gx_paginated, pagerVars>>
    /\ UNCHANGED <<page, probe_count>>
    /\ UNCHANGED pageFrame

\* get_exhibitors, lines 179-190, once _fetch_exhibitors_from_api has returned
PageAfterApi ==
    /\ pp_pc = "paginating"
    /\ pg_pc = "done"
    /\ Fallback(all_exhibitors)
    /\ gx_end' = "listed"
    /\ pp_pc' = "done"
    /\ UNCHANGED <<page, probe_count, gx_paginated>>
    /\ UNCHANGED <<cacheVars, served, pagerVars>>
    /\ UNCHANGED pageFrame

PageInit ==
    /\ PipelineIdle
    /\ EventsIdle
    /\ FilterIdle
    /\ TwoIdle
    /\ SourceIdle
    /\ killed = KillsNotObserved
    /\ today \in Dates
    /\ DateIdle
    /\ PagerIdle
    /\ FetchIdle
    /\ page \in Pages
    /\ pp_pc = "start" /\ probe_count = None
    /\ gx_result = <<>> /\ gx_paginated = FALSE /\ gx_fallback = FALSE
    /\ gx_end = "none"

PageNext ==
    \/ PageProbe
    \/ PageGetExhibitors
    \/ FetchStart
    \/ FetchPage
    \/ FetchExit
    \/ PageAfterApi

SpecPage == PageInit /\ [][PageNext]_vars

\* get_exhibitors has returned
Listed == pp_pc = "done"

\* C23 as stated: for a page whose embedded configuration (with or without a
\* search endpoint) declares a row count of zero or none, get_exhibitors
\* returns the empty sequence, issues no API request and does not attempt the
\* HTML fallback.
C23_AsStated ==
    (Listed /\ page.config \in {"ok", "no_search_url"} /\ DeclaredRowCount(page) = 0) =>
        /\ gx_result = <<>>
        /\ ~gx_paginated /\ requests = <<>>
        /\ ~gx_fallback

\* C23 amended: for a page whose embedded configuration has a search endpoint
\* and declares a row count of zero or none, get_exhibitors returns the empty
\* sequence, issues no API request and does not attempt the HTML fallback.
C23_RowCountZero ==
    (Listed /\ page.config = "ok"
        /\ (page.row_count = None \/ page.row_count = 0)) =>
        /\ gx_result = <<>>
        /\ ~gx_paginated /\ requests = <<>>
        /\ ~gx_fallback

\* C23 witness: the configuration declares no row count while the page has
\* exhibitor rows and the API would have served a page.
C23_Witness ==
    /\ Listed
    /\ gx_end = "row_count_zero"
    /\ page.row_count = None
    /\ page.total = 1 /\ page.api_pages = 1
    /\ page.rows = <<"name_link", "text">>
    /\ gx_result = <<>>


(***************************************************************************)
(* Specification SpecEvents: TargiKielceParser.get_events over the cards   *)
(* ('a.trades-list-item') of one 'view'.  A URL is the sequence of its     *)
(* pieces of text, so that replace, rstrip, startswith and "in" are        *)
(* computed on the text.  Of an event the fields url, name and             *)
(* exhibitors_url are kept.                                                *)
(***************************************************************************)
MaxCards == 3

SiteHead == "https://www.targikielce.pl"

ForeignHead == "https://partner.example"

\* a query string that carries the text of the site's domain
UtmQuery == "?utm_source=targikielce.pl"

About == "/o-wydarzeniu"

ExhibitorList == "/lista-wystawcow"

\* the values of the href attribute; <<>> is a card without href
Hrefs ==
    { <<>>,
      <<SiteHead, "/dachforum", About>>,
      <<SiteHead, "/dachforum", About, "/">>,
      <<SiteHead, "/dachforum", "/">>,
      <<"/dachforum">>,
      <<ForeignHead, "/dachforum", About>>,
      <<ForeignHead, "/dachforum", UtmQuery>>,
      <<SiteHead, About, "-expo", About>> }

\* the h3 of a card: missing, holding white space only, or holding a title
TitleTexts == {"missing", "blank", "Targi"}

Cards == [href : Hrefs, title : TitleTexts]

\* None where a str is expected
NoneText == "<None>"

\* _extract_text(item, 'h3.trades-list-item__title', ''): the default when
\* the element is missing, None from _clean_text for white space
ExtractText(t) ==
    IF t = "missing" THEN "" ELSE IF t = "blank" THEN NoneText ELSE t

\* truth value of a Python str or None
TruthyText(text) == text \notin {"", NoneText}

\* event_url.startswith('http')
StartsWithHttp(url) == url # <<>> /\ url[1] \in {SiteHead, ForeignHead}

\* 'targikielce.pl' in event_url
ContainsDomain(url) == \E i \in 1..Len(url) : url[i] \in {SiteHead, UtmQuery}

\* variant: no card is skipped
SkippedNever(url) == FALSE

\* the condition of line 63
Skipped(url) == url # <<>> /\ ~ContainsDomain(url) /\ StartsWithHttp(url)

\* url.replace('/o-wydarzeniu', '/lista-wystawcow') from piece i on
RECURSIVE ReplaceFrom(_, _)
ReplaceFrom(url, i) ==
    IF i > Len(url) THEN <<>>
    ELSE <<IF url[i] = About THEN ExhibitorList ELSE url[i]>> \o ReplaceFrom(url, i + 1)

\* url.rstrip('/')
RECURSIVE RStripSlash(_)
RStripSlash(url) ==
    IF url # <<>> /\ url[Len(url)] = "/"
    THEN RStripSlash(SubSeq(url, 1, Len(url) - 1))
    ELSE url

\* lines 76-80
ExhibitorsUrl(url) ==
    IF \E i \in 1..Len(url) : url[i] = About
    THEN ReplaceFrom(url, 1)
    ELSE RStripSlash(url) \o <<ExhibitorList>>

\* the dict of lines 66-80; <<>> stands for the key that is not set
EventOf(card) ==
    [url |-> card.href,
     name |-> ExtractText(card.title),
     exhibitors_url |-> IF card.href # <<>> THEN ExhibitorsUrl(card.href) ELSE <<>>]

eventsFrame == <<dbVars, runVars, cacheVars, webVer, today, obsVars, dateVars,
                 pagerVars, fetchVars, lifeVars, killed, probe_end, events_end,
                 pageVars, filterVars, twoVars, sourceVars>>

\* one iteration of "for item in soup.select(...)", lines 59-89
GetEventsCard ==
    /\ ge_pc = "loop"
    /\ card_i <= Len(cards)
    /\ LET card == cards[card_i]
           event == EventOf(card)
       IN  ge_events' = IF Skipped(card.href) THEN ge_events
                        ELSE IF TruthyText(event.name) THEN Append(ge_events, event)
                        ELSE ge_events
    /\ card_i' = card_i + 1
    /\ UNCHANGED <<cards, ge_pc>>
    /\ UNCHANGED eventsFrame

\* the end of the loop and "return events", lines 91-96
GetEventsReturn ==
    /\ ge_pc = "loop"
    /\ card_i > Len(cards)
    /\ ge_pc' = "done"
    /\ UNCHANGED <<cards, card_i, ge_events>>
    /\ UNCHANGED eventsFrame

EventsInit ==
    /\ PipelineIdle
    /\ killed = KillsNotObserved
    /\ PageIdle
    /\ today \in Dates
    /\ DateIdle
    /\ PagerIdle
    /\ FetchIdle
    /\ FilterIdle
    /\ TwoIdle
    /\ SourceIdle
    /\ cards \in UNION {[1..n -> Cards] : n \in 0..MaxCards}
    /\ card_i = 1 /\ ge_events = <<>> /\ ge_pc = "loop"

EventsNext ==
    \/ GetEventsCard
    \/ GetEventsReturn

SpecEvents == EventsInit /\ [][EventsNext]_vars

\* the cards the claim keeps
CardKept(card) ==
    /\ card.title \notin {"missing", "blank"}
    /\ ~(StartsWithHttp(card.href) /\ ~ContainsDomain(card.href))

EndsInAbout(url) == url # <<>> /\ url[Len(url)] = About

\* C29: exhibitors_url is a function of the event's URL: a URL that ends in
\* '/o-wydarzeniu' has only that trailing segment replaced by
\* '/lista-wystawcow' and the rest unchanged; a URL without the segment has
\* '/lista-wystawcow' appended after its trailing slashes are stripped.
C29_ExhibitorsUrlDerived ==
    \A i \in 1..Len(ge_events) :
        LET url == ge_events[i].url
        IN  /\ EndsInAbout(url) =>
                  ge_events[i].exhibitors_url =
                      SubSeq(url, 1, Len(url) - 1) \o <<ExhibitorList>>
            /\ (url # <<>> /\ \A j \in 1..Len(url) : url[j] # About) =>
                  ge_events[i].exhibitors_url = RStripSlash(url) \o <<ExhibitorList>>


(***************************************************************************)
(* Specification SpecFetch: one call of ScrapingEngine.fetch_url.  Each    *)
(* attempt is one session.get/post; the session sends it through the       *)
(* HTTPAdapter mounted in __init__, whose Retry strategy may put several   *)
(* requests on the wire before the call returns a response or raises.      *)
(***************************************************************************)
MaxRetriesCfg == 3
MaxDelay == 2

BackoffFactor == 1

\* variant: 429 is not in the list
StatusForcelistNo429 == {500, 502, 503, 504}

\* Retry(status_forcelist=...), engine.py line 37
StatusForcelist == {429, 500, 502, 503, 504}

\* the statuses for which the Retry strategy honours a Retry-After header
RetryAfterStatusCodes == {413, 429, 503}

\* what the server may answer to one request on the wire; status 0 stands for
\* no answer at all (connection refused, timeout)
Statuses == {200, 404, 413, 429, 501, 503}

RetryAfterValues == {None, 2}

TransportError == [status |-> 0, retry_after |-> None]

Answers == [status : Statuses, retry_after : RetryAfterValues] \cup {TransportError}

\* Retry.is_retry with allowed_methods = GET, POST and `left` retries remaining
IsRetry(status, retry_after, left) ==
    \/ status \in StatusForcelist
    \/ left # 0 /\ retry_after # None /\ status \in RetryAfterStatusCodes

\* Retry.get_backoff_time after n consecutive failed requests of one call (its
\* ceiling of 120 s is out of reach of max_retries + 1 requests)
BackoffTime(n) ==
    IF n <= 1 THEN 0 ELSE BackoffFactor * 2 ^ (n - 1)

\* Retry.sleep: Retry-After when the response carries one, else the backoff
AdapterSleep(answer, n) ==
    IF answer.retry_after # None /\ answer.retry_after # 0
    THEN answer.retry_after
    ELSE BackoffTime(n)

\* response.raise_for_status(), line 75
RaisesForStatus(status) == 400 <= status /\ status < 600

\* variant: no status is permanent
IsClientErrorNever(status) == FALSE

\* variant: 5xx is permanent as well
IsClientErrorOrServer(status) == 400 <= status

\* line 82
IsClientError(status) == 400 <= status /\ status < 500

\* lines 87 and 95
MoreAttempts(k, retries) == k < retries

\* variant: the same wait after every attempt
BackoffFlat(d, k) == d

\* lines 88 and 96
Backoff(d, k) == d * k

fetchFrame == <<dbVars, runVars, cacheVars, webVer, today, obsVars, dateVars, pagerVars,
                lifeVars, killed, probe_end, events_end, pageVars, eventsVars, filterVars, twoVars, sourceVars>>

\* "for attempt in range(1, self.max_retries + 1)", line 66, and line 103
FetchUrl ==
    /\ fu_pc = "start"
    /\ IF 1 <= max_retries
       THEN /\ attempt' = 1
            /\ total_left' = max_retries
            /\ fu_pc' = "send"
            /\ UNCHANGED fetch_result
       ELSE /\ fetch_result' = "None"
            /\ fu_pc' = "done"
            /\ UNCHANGED <<attempt, total_left>>
    /\ UNCHANGED <<max_retries, delay, call_errors, call_wire, call_slept,
                   session_outcome, attempt_log, waits, gap>>
    /\ UNCHANGED fetchFrame

\* one request on the wire within session.get/post, lines 70-73, as the
\* adapter's Retry strategy (lines 34-43) handles its answer
SessionSend ==
    /\ fu_pc = "send"
    /\ \E answer \in Answers :
          LET wire == call_wire + 1
              retried == answer = TransportError
                         \/ IsRetry(answer.status, answer.retry_after, total_left)
              exhausted == total_left - 1 < 0
          IN  /\ call_wire' = wire
              /\ IF retried /\ ~exhausted
                 THEN \* Retry.increment, Retry.sleep, send again
                      /\ total_left' = total_left - 1
                      /\ call_errors' = call_errors + 1
                      /\ call_slept' = call_slept + AdapterSleep(answer, call_errors + 1)
                      /\ fu_pc' = "send"
                      /\ UNCHANGED session_outcome
                 ELSE /\ session_outcome' =
                            [kind |-> IF retried THEN "exception" ELSE "response",
                             status |-> answer.status, wire |-> wire]
                      /\ fu_pc' = "handle"
                      /\ UNCHANGED <<total_left, call_errors, call_slept>>
    /\ IF call_wire = 0 /\ attempt > 1
       THEN waits' = Append(waits, gap) /\ gap' = 0
       ELSE UNCHANGED <<waits, gap>>
    /\ UNCHANGED <<max_retries, delay, attempt, fetch_result, attempt_log>>
    /\ UNCHANGED fetchFrame

\* the rest of the loop body, lines 75-101
HandleOutcome ==
    /\ fu_pc = "handle"
    /\ attempt_log' = Append(attempt_log, session_outcome)
    /\ LET Return(r) ==
               /\ fetch_result' = r
               /\ fu_pc' = "done"
               /\ UNCHANGED <<attempt, gap>>
           Retry ==
               IF MoreAttempts(attempt, max_retries)
               THEN /\ gap' = gap + Backoff(delay, attempt)
                    /\ attempt' = attempt + 1
                    /\ fu_pc' = "send"
                    /\ UNCHANGED fetch_result
               ELSE Return("None")
       IN  IF session_outcome.kind = "response"
           THEN IF ~RaisesForStatus(session_outcome.status)
                THEN Return("response")
                ELSE IF IsClientError(session_outcome.status)
                THEN Return("None")
                ELSE Retry
           ELSE Retry
    /\ total_left' = max_retries
    /\ call_errors' = 0 /\ call_wire' = 0 /\ call_slept' = 0
    /\ session_outcome' = NoOutcome
    /\ UNCHANGED <<max_retries, delay, waits>>
    /\ UNCHANGED fetchFrame

FetchInit ==
    /\ PipelineIdle
    /\ killed = KillsNotObserved
    /\ PageIdle
    /\ EventsIdle
    /\ FilterIdle
    /\ TwoIdle
    /\ SourceIdle
    /\ today \in Dates
    /\ DateIdle
    /\ PagerIdle
    /\ fu_pc = "start"
    /\ max_retries \in 0..MaxRetriesCfg
    /\ delay \in 1..MaxDelay
    /\ attempt = 0 /\ total_left = 0
    /\ call_errors = 0 /\ call_wire = 0 /\ call_slept = 0
    /\ session_outcome = NoOutcome /\ fetch_result = "pending"
    /\ attempt_log = <<>> /\ waits = <<>> /\ gap = 0

FetchNext == FetchUrl \/ SessionSend \/ HandleOutcome

SpecFetch == FetchInit /\ [][FetchNext]_vars

\* the scheduler keeps running the thread that called fetch_url
SpecFetchLive == SpecFetch /\ WF_vars(FetchNext)

(***************************************************************************)
(* Properties of fetch_url (specifications SpecFetch and SpecFetchLive).   *)
(* attempt_log[k] is what the k-th session call ended with: the status of  *)
(* the last answer on the wire (0: none), whether the session returned it  *)
(* as a response or raised, and the number of requests the call sent.      *)
(***************************************************************************)
\* the call has returned None right after its k-th attempt, without sleeping
EndsAt(k) ==
    /\ k = Len(attempt_log)
    /\ fu_pc = "done"
    /\ fetch_result = "None"
    /\ gap = 0
    /\ Len(waits) = k - 1

Succeeded(k) == attempt_log[k].kind = "response" /\ attempt_log[k].status = 200

FailedRetryably(k) == attempt_log[k].status = 0 \/ attempt_log[k].status \in 500..599

C13_Bounded ==
    /\ attempt <= max_retries
    /\ Len(attempt_log) <= max_retries
    /\ \A k \in 1..Len(attempt_log) :
          Succeeded(k) => /\ k = Len(attempt_log)
                          /\ fu_pc = "done"
                          /\ fetch_result = "response"
    /\ fu_pc = "done" =>
          /\ fetch_result = "response" =>
                Len(attempt_log) >= 1 /\ Succeeded(Len(attempt_log))
          /\ (\A k \in 1..Len(attempt_log) : FailedRetryably(k)) =>
                Len(attempt_log) = max_retries /\ fetch_result = "None"

\* C13: fetch_url always returns; it never makes more than max_retries
\* attempts, it returns the response of the first attempt that succeeds, and
\* when every attempt ends on a transport error or a 5xx answer it makes
\* exactly max_retries attempts and returns None.
C13_Terminates == []C13_Bounded /\ <>(fu_pc = "done")

C13_Witness ==
    /\ fu_pc = "done"
    /\ max_retries = 3
    /\ Len(attempt_log) = 3
    /\ attempt_log[1].status = 0
    /\ attempt_log[2].status = 501
    /\ attempt_log[3].status = 503
    /\ fetch_result = "None"

\* C14: the wait between attempt k and attempt k+1 is delay * k, and nothing
\* is waited after the attempt fetch_url returns from.
C14_LinearBackoff ==
    /\ \A k \in 1..Len(waits) : waits[k] = delay * k
    /\ fu_pc = "done" => gap = 0 /\ Len(waits) + 1 >= Len(attempt_log)

C14_Witness ==
    /\ fu_pc = "done"
    /\ max_retries = 3
    /\ delay = 2
    /\ waits = <<2, 4>>
    /\ Len(attempt_log) = 3
    /\ fetch_result = "None"


(***************************************************************************)
(* Properties of BaseModule.run and of the event loop (specification Spec) *)
(***************************************************************************)
\* run() has returned an exit code
Returned == pc = "off" /\ exit_code # None

\* C15: when run() has returned, a database connection that was opened has
\* been disconnected exactly once and an HTTP session that was opened has been
\* closed exactly once, also when setup failed after the connection was opened
\* and when execute() raised.
C15_GuaranteedRelease ==
    Returned =>
        /\ db_acquired => db_disconnects = 1
        /\ session_acquired => session_closes = 1

\* C16: run() returns 1 exactly when setup failed, the connection test failed,
\* the DataSource row could not be obtained or execute() raised, and 0 in every
\* other case, whatever happened to individual events.
C16_ExitCode ==
    Returned =>
        /\ exit_code \in {0, 1}
        /\ exit_code = 1 <=>
              fault \in {"setup", "test_connection", "data_source", "raised"}
        /\ exit_code = 0 <=> fault = "none"

C16_Witness ==
    /\ Returned
    /\ exit_code = 0
    /\ Len(events) = 2
    /\ event_errors # {}

UpTo(n) == [i \in 1..n |-> i]

InLoopBody ==
    pc \in {"save_or_get_event", "count", "probe", "compare", "get_exhibitors",
            "get_existing", "company_loop", "save_company_check",
            "save_company_country", "save_company_insert"}

\* C17: the iterations started so far are those of events 1, 2, ... in list
\* order, each once, and when the loop has ended every event of the list has
\* had its iteration, whatever error ended earlier iterations.
C17_EveryEventAttempted ==
    /\ InLoopBody => attempted = UpTo(ev_i)
    /\ pc = "loop" => attempted = UpTo(ev_i - 1)
    /\ pc \in {"cleanup", "off"} /\ result = "True" => attempted = UpTo(Len(events))

C17_Witness ==
    /\ Returned
    /\ result = "True"
    /\ Len(events) = 2
    /\ 1 \in event_errors
    /\ attempted = <<1, 2>>

\* the rows a table had are still there, unchanged and in place
Kept(table, table2) ==
    /\ Len(table2) >= Len(table)
    /\ \A i \in 1..Len(table) : table2[i] = table[i]

NoDupEvents ==
    \A i, j \in 1..Len(eventTab) :
        i # j => SliceTo(eventTab[i].Name, EventNameLimit)
                    # SliceTo(eventTab[j].Name, EventNameLimit)

\* _save_or_get_event has returned an Id: that of the row already stored under
\* the truncated name when there is one, that of a new row otherwise
ReturnsEventId ==
    pc = "save_or_get_event" /\ event_id' # 0 =>
        LET name == SliceTo(EventName(CurEvent), EventNameLimit)
            stored == {i \in 1..Len(eventTab) : eventTab[i].Name = name}
        IN  /\ event_id' \in 1..Len(eventTab')
            /\ eventTab'[event_id'].Name = name
            /\ IF stored # {}
               THEN eventTab' = eventTab /\ event_id' \in {eventTab[i].Id : i \in stored}
               ELSE Len(eventTab') = Len(eventTab) + 1

\* C18: the Event table never holds two rows whose names agree on their first
\* 50 characters; _save_or_get_event returns the Id of the stored row when
\* there is one and inserts only otherwise; a stored Event row never changes.
C18_EventUnique ==
    /\ []NoDupEvents
    /\ [][Kept(eventTab, eventTab') /\ ReturnsEventId]_vars

C18_Witness ==
    /\ runs = 2
    /\ pc = "count"
    /\ event_id = 1
    /\ Len(eventTab) = 1
    /\ iters = 2

NoDupDimensions ==
    /\ \A i, j \in 1..Len(dataSource) :
          i # j => dataSource[i].Name # dataSource[j].Name
    /\ \A i, j \in 1..Len(countryTab) :
          i # j => SliceTo(countryTab[i].Name, CountryNameLimit)
                      # SliceTo(countryTab[j].Name, CountryNameLimit)

\* _ensure_data_source has returned an Id while a row named "Targi Kielce" was
\* stored
DataSourceLookup ==
    /\ pc = "ensure_data_source"
    /\ pc' = "get_events"
    /\ \E i \in 1..Len(dataSource) : dataSource[i].Name = DataSourceName

DataSourceLookupById ==
    \E i \in 1..Len(dataSource) :
        dataSource[i].Name = DataSourceName /\ data_source_id' = dataSource[i].Id

\* _get_country_id has returned while a row for the country name was stored
CountryLookup ==
    /\ pc = "save_company_country"
    /\ pc' = "save_company_insert"
    /\ \E i \in 1..Len(countryTab) :
          countryTab[i].Name = SliceTo(ExhibitorCountry(CurExhibitor), CountryNameLimit)

CountryLookupById ==
    \E i \in 1..Len(countryTab) :
        /\ countryTab[i].Name = SliceTo(ExhibitorCountry(CurExhibitor), CountryNameLimit)
        /\ country_id' = countryTab[i].Id

C20_AdditiveOnly ==
    [][/\ Kept(dataSource, dataSource')
       /\ Kept(eventTab, eventTab')
       /\ Kept(countryTab, countryTab')
       /\ Kept(company, company')]_vars

C20_Witness ==
    /\ runs = 2
    /\ Len(dataSource) = 1
    /\ Len(eventTab) = 2
    /\ Len(countryTab) = 2
    /\ Len(company) = 2


\* the iteration of an event has just ended after the probed count exceeded
\* the stored count, with no statement of it failing
IterationCompleted ==
    /\ pc = "loop"
    /\ probed
    /\ expected_count > db_count
    /\ iter_fetch_calls = 1
    /\ Len(outcomes) = Len(exhibitors)
    /\ \A j \in 1..Len(outcomes) : outcomes[j] # "error"
    /\ (ev_i - 1) \notin event_errors

ListingStored ==
    \A j \in 1..Len(exhibitors) :
        CompanyRowsFor(SliceTo(ExhibitorName(exhibitors[j]), CompanyNameLimit), event_id) # {}

\* C21 (specification SpecResume): whatever database a terminated run (or any earlier run) has left, the
\* store never holds a duplicate Event, Country or Company row, an event whose
\* probed count exceeds its stored count and whose iteration meets no failure
\* ends with a Company row for every truncated name of its listing, and
\* these rows stay until the run ends (no step removes or changes a Company
\* row).
C21_ResumeAfterKill ==
    /\ [](C1_NoDuplicateCompany /\ NoDupEvents /\ NoDupDimensions)
    /\ [](IterationCompleted => ListingStored)
    /\ [][Kept(company, company')]_vars

\* C21 witness: the first run was terminated inside _save_company with one
\* of two exhibitors stored; the second run got the same event and listing,
\* met no failure, stored the missing exhibitor only and reached the end of
\* its event list.
C21_Witness ==
    /\ runs = 2
    /\ killed \notin {NoKill, KillsNotObserved}
    /\ IterationCompleted
    /\ ev_i > Len(events)
    /\ killed.event = events[ev_i - 1]
    /\ killed.exhibitors = exhibitors
    /\ outcomes = <<"filtered", "inserted">>
    /\ dbFails = 0
    /\ Len(company) = 2
    /\ ListingStored


\* C22: the probe always returns to execute(), with 0 when the page was not
\* fetched or reading it raised; and in an iteration whose probe returned 0
\* get_exhibitors is not called, no Company row is written and the iteration
\* ends at the comparison.
C22_ProbeZeroSkips ==
    /\ [](probed /\ probe_end \in {"unfetched", "raised"} => expected_count = 0)
    /\ [](probed /\ expected_count = 0 =>
             /\ iter_fetch_calls = 0
             /\ Len(company) = iter_company0
             /\ pc \in {"compare", "loop"})
    /\ [][pc = "probe" => pc' \in {"compare", "off"}]_vars

\* C22 witness: reading the fetched page raised, the probe returned 0 with
\* the page left in the cache, and the event, which had no stored rows, ended
\* without a get_exhibitors call.
C22_Witness ==
    /\ pc = "loop"
    /\ probed
    /\ probe_end = "raised"
    /\ expected_count = 0
    /\ cached_url = EventExhibitorsUrl(events[ev_i - 1])
    /\ db_count = 0
    /\ iter_fetch_calls = 0


GetEventsFailed == events_end \in {"fetch_failed", "no_view", "raised"}

\* C25: get_events always returns to execute(); when its fetch failed, the
\* response had no 'view' or its parsing raised, it returns the empty
\* sequence, execute() returns True at once (exit code 0), no event iteration
\* is started and no step of the run creates an Event or Company row.
C25_GetEventsNeverRaises ==
    /\ [](GetEventsFailed =>
             /\ events = <<>>
             /\ pc \in {"cleanup", "off"}
             /\ result = "True" /\ fault = "none"
             /\ attempted = <<>>
             /\ Returned => exit_code = 0)
    /\ [][pc = "get_events" => pc' \in {"loop", "cleanup", "off"}]_vars
    /\ [][(GetEventsFailed' \/ pc \in {"setup", "init_module", "test_connection",
                                        "ensure_data_source", "get_events"}) =>
              eventTab' = eventTab /\ company' = company]_vars

\* C25 witness: the second run, over a store that holds an event and a
\* company, got a response without 'view' and returned exit code 0.
C25_Witness ==
    /\ runs = 2
    /\ Returned
    /\ exit_code = 0
    /\ events_end = "no_view"
    /\ Len(eventTab) = 1
    /\ Len(company) = 1

\* C26: fetch_json returns None, and does not raise, when fetch_url returned
\* None and when the body is not JSON; a page of the paginator whose fetch_json
\* gave None ends the pagination with the rows collected so far, after which
\* get_exhibitors returns its list as usual.
C26_FetchJsonFailure ==
    /\ [](response.fetch = "None" => response.json = "None")
    /\ [](response.body = "malformed" => response.json = "None")
    /\ [][(requests' # requests /\ response'.json = "None") =>
              /\ requests' = Append(requests, page_index)
              /\ pg_pc' = "done"
              /\ all_exhibitors' = all_exhibitors]_vars
    /\ [][(pp_pc = "paginating" /\ pg_pc = "done") =>
              /\ pp_pc' = "done"
              /\ gx_end' = "listed"
              /\ gx_result' = IF all_exhibitors = <<>>
                              THEN ParseExhibitorsFromHtml(page.rows, 1)
                              ELSE all_exhibitors]_vars

\* C26 witness: page 1 was read, the body of page 2 was not JSON, and
\* get_exhibitors returned the rows of page 1.
C26_Witness ==
    /\ Listed
    /\ gx_end = "listed"
    /\ requests = <<1, 2>>
    /\ response.fetch = "response" /\ response.body = "malformed"
    /\ gx_result = RowsOfPages(1)
    /\ gx_result # <<>>
    /\ ~gx_fallback

\* C27: a persistence error during the INSERT of one Company row abandons
\* only that insert: _save_company returns False to the exhibitor loop, which
\* goes on with the next exhibitor of the same event, and the Event row and
\* the Company rows written before stay as they are.
C27_InsertErrorLocal ==
    [][(pc = "save_company_insert" /\ dbFails' # dbFails) =>
           /\ pc' = "company_loop"
           /\ ex_j' = ex_j + 1
           /\ last'.outcome = "error"
           /\ ev_i' = ev_i
           /\ eventTab' = eventTab
           /\ company' = company]_vars

\* a table row that holds the exhibitor-name element
IsNameRow(r) == r = "name_link"

\* C30: when the listing page was read and has no usable configuration
\* (absent, malformed, or without a search endpoint), the count probe returns
\* the number of its table rows that hold an exhibitor-name element, whatever
\* other rows the table has.
C30_ProbeCountsNameRows ==
    (/\ probe_count # None
     /\ page.fetched /\ ~page.raises
     /\ page.config \in {"absent", "malformed", "no_search_url"}) =>
        probe_count = Len(SelectSeq(page.rows, IsNameRow))

\* C30 witness: a page whose configuration has no search endpoint and whose
\* table has two name rows around a plain row was probed and gave 2.
C30_Witness ==
    /\ pp_pc = "probed"
    /\ page.fetched /\ ~page.raises
    /\ page.config = "no_search_url"
    /\ page.row_count = 1
    /\ page.rows = <<"name_link", "text", "name_link">>
    /\ probe_count = 2

\* the Event row execute() holds the id of
EventEnsured == \E i \in 1..Len(eventTab) : eventTab[i].Id = event_id

\* the positions of one event iteration from the read of the stored count on
FromCount == {"count", "probe", "compare", "get_exhibitors", "get_existing",
              "company_loop", "save_company_check", "save_company_country",
              "save_company_insert"}

\* C31: the steps of a run come in a fixed order: an Event row is inserted
\* only once the DataSource row exists and its id is held; the stored count
\* of an event is read only once its Event row exists; the probe comes
\* directly after that read; get_exhibitors is called only after the probe
\* of the same iteration; and a Company row is inserted only after
\* get_exhibitors was called in that iteration, for the event's own row.
C31_StepOrder ==
    /\ [][eventTab' # eventTab =>
              /\ data_source_id # 0
              /\ \E i \in 1..Len(dataSource) : dataSource[i].Id = data_source_id
              /\ eventTab'[Len(eventTab')].DataSourceId = data_source_id]_vars
    /\ [](pc \in FromCount => EventEnsured)
    /\ [][pc' = "probe" => pc = "count"]_vars
    /\ [][(probed' /\ ~probed) => pc = "probe"]_vars
    /\ [](pc \in {"compare", "get_exhibitors", "get_existing", "company_loop",
                  "save_company_check", "save_company_country",
                  "save_company_insert"} => probed)
    /\ [][iter_fetch_calls' > iter_fetch_calls =>
              pc = "get_exhibitors" /\ probed]_vars
    /\ [][company' # company =>
              /\ iter_fetch_calls >= 1
              /\ EventEnsured
              /\ company'[Len(company')].EventId = event_id]_vars

\* C31 witness: the first iteration of the first run went through every
\* step and stored a Company row.
C31_Witness ==
    /\ runs = 1 /\ iters = 1
    /\ pc = "company_loop"
    /\ Len(dataSource) = 1 /\ Len(eventTab) = 1 /\ Len(company) = 1
    /\ probed /\ iter_fetch_calls = 1
    /\ company[1].EventId = event_id

\* the parts of s that are a decimal token of one or two digits
ShortTokens(s) ==
    {i \in 1..Len(PartsOf(s)) :
        /\ Len(PartsOf(s)[i]) <= 2
        /\ IsDigit(PartsOf(s)[i])
        /\ ~IntRaises(PartsOf(s)[i])}

\* the parts of s that are a decimal token of four digits
LongTokens(s) ==
    {i \in 1..Len(PartsOf(s)) :
        /\ Len(PartsOf(s)[i]) = 4
        /\ IsDigit(PartsOf(s)[i])
        /\ ~IntRaises(PartsOf(s)[i])}

\* a date text with one year token, one month token (not zero) and no day token
YearAndMonthOnly(s) ==
    /\ Cardinality(LongTokens(s)) = 1
    /\ Cardinality(ShortTokens(s)) = 1
    /\ \A i \in ShortTokens(s) : StrToInt(PartsOf(s)[i]) >= 1
    /\ \A i \in 1..Len(PartsOf(s)) : IsDigit(PartsOf(s)[i]) => ~IntRaises(PartsOf(s)[i])

\* C32: for a date text with a four-digit year and a month token but no day
\* token the normalised event date is day 1 of that month ("03.2025" gives
\* "2025-03-01"), not the current date.
C32_DayDefaultsToFirst ==
    (date_pc = "done" /\ YearAndMonthOnly(date_str)) =>
        \A y \in LongTokens(date_str), m \in ShortTokens(date_str) :
            date_result.value =
                FormatDate(StrToInt(PartsOf(date_str)[y]),
                           StrToInt(PartsOf(date_str)[m]), 1)

(***************************************************************************)
(* Specification SpecFilter: WebsiteScraperModule._filter_future_events    *)
(* over a list of events, each given by its 'date' text, on the day        *)
(* "today".                                                                *)
(***************************************************************************)
MaxFilterEvents == 2

FilterDays == {<<"0","2">>, <<"0","3">>, <<"0","4">>, <<"0","5">>, <<"0","6">>}

FilterMonth == <<"1","1">>

FilterYear == <<"2","0","2","6">>

\* the 'date' texts of the events: empty, single days and ranges around
\* 2026-11-04, a two-digit year, no month, two parts, a month and a year
\* without a day, a digit int() rejects, a day the month does not have
FilterDates ==
    {<<>>}
    \cup {JoinFrom(<<d, FilterMonth, FilterYear>>, "dots", 1) :
            d \in {<<"0","3">>, <<"0","4">>, <<"0","5">>}}
    \cup {JoinFrom(<<d1, d2, FilterMonth, FilterYear>>, "range", 1) :
            d1 \in {<<"0","2">>, <<"0","3">>, <<"0","5">>},
            d2 \in {<<"0","3">>, <<"0","4">>, <<"0","6">>}}
    \cup {JoinFrom(<<<<"0","5">>, FilterMonth, <<"2","6">>>>, "dots", 1),
          JoinFrom(<<<<"a","b">>, <<"c","d">>, FilterYear>>, "dots", 1),
          JoinFrom(<<FilterMonth, FilterYear>>, "dots", 1),
          JoinFrom(<<<<"a","b">>, <<"1","2">>, FilterYear>>, "dots", 1),
          JoinFrom(<<<<"^2">>, FilterMonth, FilterYear>>, "dots", 1),
          JoinFrom(<<<<"3","1">>, FilterMonth, FilterYear>>, "dots", 1)}

\* calendar.monthrange(y, m)[1]
DaysInMonth(y, m) ==
    IF m = 2
    THEN IF (y % 4 = 0 /\ y % 100 # 0) \/ y % 400 = 0 THEN 29 ELSE 28
    ELSE IF m \in {4, 6, 9, 11} THEN 30 ELSE 31

\* datetime(year, month, day) raises ValueError
DatetimeRaises(y, m, d) ==
    \/ y \notin 1..9999
    \/ m \notin 1..12
    \/ d \notin 1..DaysInMonth(y, m)

\* the date of a 'YYYY-MM-DD' text as <<year, month, day>>
YMD(text) ==
    <<StrToInt(SubSeq(text, 1, 4)), StrToInt(SubSeq(text, 6, 7)),
      StrToInt(SubSeq(text, 9, 10))>>

\* date a >= date b
NotBefore(a, b) ==
    \/ a[1] > b[1]
    \/ a[1] = b[1] /\ a[2] > b[2]
    \/ a[1] = b[1] /\ a[2] = b[2] /\ a[3] >= b[3]

\* the date the body of the loop compares with today, lines 224-246:
\* "raised" when int() or datetime() raises, "none" when no comparison is made
FilterEventDate(text) ==
    LET parts == Split(Replace(text, "-", "."), ".")
        r == ScanParts(parts, Len(parts),
                       [year |-> None, month |-> None, day |-> None, raised |-> FALSE])
        day == IF r.day = None THEN 1 ELSE r.day
    IN  IF r.raised THEN [end |-> "raised", date |-> <<>>]
        ELSE IF Truthy(r.year) /\ Truthy(r.month)
        THEN IF DatetimeRaises(r.year, r.month, day)
             THEN [end |-> "raised", date |-> <<>>]
             ELSE [end |-> "date", date |-> <<r.year, r.month, day>>]
        ELSE [end |-> "none", date |-> <<>>]

\* whether the body of the loop appends the event, lines 217-253
FilterKeeps(text, now) ==
    IF text = <<>> THEN TRUE
    ELSE IF Len(Split(Replace(text, "-", "."), ".")) >= 3
    THEN LET e == FilterEventDate(text)
         IN  CASE e.end = "raised" -> TRUE
               [] e.end = "date" -> NotBefore(e.date, YMD(now))
               [] OTHER -> FALSE
    ELSE TRUE

filterFrame == <<dbVars, runVars, cacheVars, webVer, today, obsVars, dateVars,
                 pagerVars, fetchVars, lifeVars, killed, probe_end, events_end,
                 pageVars, eventsVars, twoVars, sourceVars>>

\* one iteration of "for event in events", lines 216-253
FilterEvent ==
    /\ ff_pc = "loop"
    /\ ff_i <= Len(ff_events)
    /\ future_events' = IF FilterKeeps(ff_events[ff_i], today)
                        THEN Append(future_events, ff_i)
                        ELSE future_events
    /\ ff_i' = ff_i + 1
    /\ UNCHANGED <<ff_events, ff_pc>>
    /\ UNCHANGED filterFrame

\* "return future_events", line 255
FilterReturn ==
    /\ ff_pc = "loop"
    /\ ff_i > Len(ff_events)
    /\ ff_pc' = "done"
    /\ UNCHANGED <<ff_events, ff_i, future_events>>
    /\ UNCHANGED filterFrame

FilterInit ==
    /\ PipelineIdle
    /\ killed = KillsNotObserved
    /\ PageIdle
    /\ EventsIdle
    /\ today \in Dates
    /\ DateIdle
    /\ PagerIdle
    /\ FetchIdle
    /\ TwoIdle
    /\ SourceIdle
    /\ ff_events \in UNION {[1..n -> FilterDates] : n \in 0..MaxFilterEvents}
    /\ ff_i = 1 /\ future_events = <<>> /\ ff_pc = "loop"

FilterNext ==
    \/ FilterEvent
    \/ FilterReturn

SpecFilter == FilterInit /\ [][FilterNext]_vars

\* the filter cannot determine the date of the text: it is empty, has fewer
\* than three parts, has no year token or no month token, or reading it raises
DateUndetermined(s) ==
    \/ s = <<>>
    \/ Len(PartsOf(s)) < 3
    \/ ~HasYearToken(s)
    \/ ~HasMonthToken(s)
    \/ FilterEventDate(s).end = "raised"

\* C33: the future-event filter keeps every event whose date it cannot
\* determine (empty date, unrecognised format including three or more parts
\* without a year or without a month, parsing that raises), and its output
\* is in input order.
C33_UndeterminedKept ==
    ff_pc = "done" =>
        /\ \A i \in 1..Len(ff_events) :
              DateUndetermined(ff_events[i]) =>
                  \E k \in 1..Len(future_events) : future_events[k] = i
        /\ \A k \in 1..(Len(future_events) - 1) :
              future_events[k] < future_events[k + 1]

\* the ranges d1-d2.11.2026 with d1 < d2, as [d1, d2]
FilterRanges ==
    {r \in [d1 : FilterDays, d2 : FilterDays] : StrToInt(r.d1) < StrToInt(r.d2)}

FilterRangeText(r) == JoinFrom(<<r.d1, r.d2, FilterMonth, FilterYear>>, "range", 1)

\* C34: an event whose range d1-d2.MM.YYYY ends today or later is kept by
\* the filter, also when it started before today.
C34_RangeDecidedByLastDay ==
    ff_pc = "done" =>
        \A i \in 1..Len(ff_events), r \in FilterRanges :
            (/\ ff_events[i] = FilterRangeText(r)
             /\ NotBefore(<<StrToInt(FilterYear), StrToInt(FilterMonth), StrToInt(r.d2)>>,
                          YMD(today))) =>
                \E k \in 1..Len(future_events) : future_events[k] = i

(***************************************************************************)
(* Specification SpecTwo: one or more instances of the job are inside the  *)
(* iteration of the same event, each with the listing get_exhibitors gave  *)
(* it, and run lines 145-153 of execute() and _save_company against one    *)
(* database.  Every statement is one step; the statements succeed.         *)
(***************************************************************************)
\* the event the instances reconcile, and its row
TwoEvent == "ev1"

TwoEventId == 1

twoFrame == <<dataSource, eventTab, runVars, cacheVars, webVer, today, obsVars,
              dateVars, pagerVars, fetchVars, lifeVars, killed, probe_end,
              events_end, pageVars, eventsVars, filterVars, sourceVars>>

TwoExhibitor(p) == two_listing[inst[p].j]

\* _get_existing_company_names, line 145
TwoGetExisting(p) ==
    /\ inst[p].pc = "get_existing"
    /\ inst' = [inst EXCEPT ![p].existing = CompanyNames(TwoEventId),
                            ![p].j = 1,
                            ![p].pc = "company_loop"]
    /\ UNCHANGED <<two_listing, company, countryTab>>
    /\ UNCHANGED twoFrame

\* "for exhibitor in exhibitors" with the in-memory filter, lines 149-151
TwoCompanyLoop(p) ==
    /\ inst[p].pc = "company_loop"
    /\ IF inst[p].j > Len(two_listing)
       THEN inst' = [inst EXCEPT ![p].pc = "done"]
       ELSE LET name == ExhibitorName(TwoExhibitor(p))
            IN  IF name # <<>> /\ CompanyKey(name) \notin inst[p].existing
                THEN inst' = [inst EXCEPT ![p].pc = "save_company_check"]
                ELSE inst' = [inst EXCEPT ![p].j = @ + 1]
    /\ UNCHANGED <<two_listing, company, countryTab>>
    /\ UNCHANGED twoFrame

\* _save_company, lines 359-371: the existence check
TwoSaveCompanyCheck(p) ==
    /\ inst[p].pc = "save_company_check"
    /\ LET name == ExhibitorName(TwoExhibitor(p))
       IN  IF SelectCompany(CompanyKey(name), TwoEventId) # {}
           THEN inst' = [inst EXCEPT ![p].j = @ + 1, ![p].pc = "company_loop"]
           ELSE inst' = [inst EXCEPT ![p].passed = Len(company),
                                     ![p].pc = "save_company_country"]
    /\ UNCHANGED <<two_listing, company, countryTab>>
    /\ UNCHANGED twoFrame

\* _save_company, lines 374-379, with _get_country_id
TwoSaveCompanyCountry(p) ==
    /\ inst[p].pc = "save_company_country"
    /\ LET country == ExhibitorCountry(TwoExhibitor(p))
           name == SliceTo(country, CountryNameLimit)
           found == RowsByName(countryTab, name)
           newRow == [Id |-> Len(countryTab) + 1, Name |-> name]
       IN  IF country = <<>>
           THEN /\ inst' = [inst EXCEPT ![p].country_id = DefaultCountryId,
                                        ![p].pc = "save_company_insert"]
                /\ UNCHANGED countryTab
           ELSE IF found # {}
           THEN /\ \E i \in found :
                      inst' = [inst EXCEPT ![p].country_id = countryTab[i].Id,
                                           ![p].pc = "save_company_insert"]
                /\ UNCHANGED countryTab
           ELSE /\ countryTab' = Insert(countryTab, newRow)
                /\ inst' = [inst EXCEPT ![p].country_id = newRow.Id,
                                        ![p].pc = "save_company_insert"]
    /\ UNCHANGED <<two_listing, company>>
    /\ UNCHANGED twoFrame

\* _save_company, lines 385-405: the INSERT
TwoSaveCompanyInsert(p) ==
    /\ inst[p].pc = "save_company_insert"
    /\ company' = Insert(company,
                         [Id |-> Len(company) + 1, EventId |-> TwoEventId,
                          Name |-> CompanyKey(ExhibitorName(TwoExhibitor(p))),
                          CountryId |-> inst[p].country_id])
    /\ inst' = [inst EXCEPT ![p].j = @ + 1, ![p].passed = None,
                            ![p].pc = "company_loop"]
    /\ UNCHANGED <<two_listing, countryTab>>
    /\ UNCHANGED twoFrame

\* the Event and DataSource rows exist; any non-empty set of instances is at
\* line 145 with the same listing
TwoInit ==
    /\ RunIdle
    /\ killed = KillsNotObserved
    /\ PageIdle
    /\ EventsIdle
    /\ FilterIdle
    /\ SourceIdle
    /\ today \in Dates
    /\ DateIdle
    /\ PagerIdle
    /\ FetchIdle
    /\ dataSource = <<[Id |-> 1, Name |-> DataSourceName]>>
    /\ eventTab = <<[Id |-> TwoEventId, Name |-> EventKey(EventName(TwoEvent)),
                     EventDate |-> parse_event_date(EventDateStr(TwoEvent), today).value,
                     DataSourceId |-> 1]>>
    /\ company = <<>> /\ countryTab = <<>>
    /\ two_listing \in Listings
    /\ \E running \in (SUBSET Instances) \ {{}} :
          inst = [p \in Instances |->
                     IF p \in running
                     THEN [OffInstance EXCEPT !.pc = "get_existing"]
                     ELSE OffInstance]

TwoNext ==
    \E p \in Instances :
        \/ TwoGetExisting(p)
        \/ TwoCompanyLoop(p)
        \/ TwoSaveCompanyCheck(p)
        \/ TwoSaveCompanyCountry(p)
        \/ TwoSaveCompanyInsert(p)

SpecTwo == TwoInit /\ [][TwoNext]_vars

\* two Company rows with the same (Name, EventId)
DuplicateCompany ==
    \E i, k \in 1..Len(company) :
        i < k /\ company[i].Name = company[k].Name
              /\ company[i].EventId = company[k].EventId

Running == {p \in Instances : inst[p].pc # "off"}

\* C35: with a single instance no duplicate Company row arises; with two
\* instances on the same event a duplicate (Name, EventId) arises, and only
\* in this way: the inserting instance passed its existence check before the
\* other row of that key was inserted.
C35_DuplicateNeedsTwoInstances ==
    /\ [](Cardinality(Running) = 1 => ~DuplicateCompany)
    /\ [][\A p \in Instances :
             (inst[p].pc = "save_company_insert" /\ inst'[p].pc = "company_loop") =>
                 \A i \in 1..Len(company) :
                     (/\ company[i].Name = company'[Len(company')].Name
                      /\ company[i].EventId = company'[Len(company')].EventId) =>
                         i > inst[p].passed]_vars

\* C35 witness: two instances reconciled a listing of one exhibitor, both
\* finished, and the table holds two rows for it.
C35_Witness ==
    /\ Running = {1, 2}
    /\ \A p \in Running : inst[p].pc = "done"
    /\ two_listing = <<"x3">>
    /\ Len(company) = 2
    /\ DuplicateCompany

\* each event iteration increments at most one of the two event counters,
\* and an iteration that ends on a probe of 0 or without an Event id
\* increments neither
EventCountersConsistent ==
    /\ [](processed_events + skipped_events <= Len(attempted))
    /\ [][(pc = "compare" /\ expected_count = 0 /\ pc' # "off") =>
              <<processed_events, skipped_events>>' = <<processed_events, skipped_events>>]_vars
    /\ [][(pc = "save_or_get_event" /\ pc' # "off") =>
              <<processed_events, skipped_events>>' = <<processed_events, skipped_events>>]_vars

\* the total of the first run, which starts on an empty Company table
CompaniesAddedExact ==
    (runs = 1 /\ pc = "cleanup" /\ result = "True") => total_exhibitors = Len(company)

\* C36: the run counters agree with what happened: processed + skipped never
\* exceeds the number of events attempted, an event whose probe returned 0 or
\* whose Event row could not be saved increments neither, and the total of
\* companies added at the end of the run is the number of Company rows the
\* run inserted.
C36_CountersConsistent == EventCountersConsistent /\ []CompaniesAddedExact

\* C37: in execute() the probe runs once per event iteration and
\* get_exhibitors is called only after a probe that counted the page of the
\* same URL, so get_exhibitors takes the cached body, the one the probe
\* counted, and fetches nothing.
C37_ListingFetchedOnce ==
    /\ [][pc = "probe" => ~probed]_vars
    /\ [](pc = "get_exhibitors" =>
             /\ probe_end = "counted"
             /\ CacheHit(EventExhibitorsUrl(CurEvent))
             /\ cached_html # NoBody)
    /\ [][(pc = "get_exhibitors" /\ pc' = "get_existing") =>
              /\ served'.from_cache
              /\ served'.url = EventExhibitorsUrl(CurEvent)
              /\ served'.body = cached_html
              /\ iter_fetch_calls' = 1]_vars

\* C37 witness: get_exhibitors returned the cached body of the event's URL
\* in the second iteration of a run.
C37_Witness ==
    /\ pc = "get_existing"
    /\ runs = 1 /\ ev_i = 2
    /\ served.from_cache
    /\ served.url = EventExhibitorsUrl(CurEvent)
    /\ served.body # NoBody
    /\ iter_fetch_calls = 1

(***************************************************************************)
(* Two consecutive runs against a site that does not change and a database *)
(* that does not fail.  Every step is the pipeline's step restricted to    *)
(* its failure-free branch and to what the site advertises: get_events     *)
(* returns source_events, the listing of a URL is source_listing of it,    *)
(* and its page declares as many rows as the listing has.                  *)
(***************************************************************************)
\* the rowCount the page of u declares, read by get_exhibitors_count_fast
SourceCount(u) == Len(source_listing[u])

SourceSetup == Setup /\ pc' = "init_module"

SourceInitModule == InitModule /\ pc' = "test_connection"

SourceTestConnection == TestConnection /\ dbFails' = dbFails

SourceEnsureDataSource == EnsureDataSource /\ dbFails' = dbFails

SourceGetEvents ==
    /\ GetEvents
    /\ events_end' = "parsed"
    /\ events' = source_events

SourceSaveOrGetEvent == SaveOrGetEvent /\ dbFails' = dbFails

SourceGetEventCompanyCount == GetEventCompanyCount /\ dbFails' = dbFails

SourceProbe ==
    /\ Probe
    /\ probe_end' = "counted"
    /\ expected_count' = SourceCount(EventExhibitorsUrl(CurEvent))

SourceGetExhibitors ==
    /\ GetExhibitors
    /\ served'.body # NoBody
    /\ exhibitors' = source_listing[EventExhibitorsUrl(CurEvent)]

SourceGetExisting == GetExisting /\ dbFails' = dbFails

SourceSaveCompanyCheck == SaveCompanyCheck /\ dbFails' = dbFails

SourceSaveCompanyCountry == SaveCompanyCountry /\ dbFails' = dbFails

SourceSaveCompanyInsert == SaveCompanyInsert /\ dbFails' = dbFails

\* the URLs of the events the landing page shows
SourceUrls == {EventExhibitorsUrl(source_events[k]) : k \in 1..Len(source_events)}

SourceInit ==
    /\ PipelineIdle
    /\ killed = KillsNotObserved
    /\ PageIdle
    /\ EventsIdle
    /\ FilterIdle
    /\ TwoIdle
    /\ today \in Dates
    /\ DateIdle
    /\ PagerIdle
    /\ FetchIdle
    /\ source_events \in EventLists
    /\ source_listing \in [Urls -> Listings]
    /\ \A u \in Urls \ SourceUrls : source_listing[u] = <<>>

SourceNext ==
    \/ StartRun
    \/ SourceSetup
    \/ SourceInitModule
    \/ SourceTestConnection
    \/ SourceEnsureDataSource
    \/ SourceGetEvents
    \/ LoopHead
    \/ SourceSaveOrGetEvent
    \/ SourceGetEventCompanyCount
    \/ SourceProbe
    \/ Compare
    \/ SourceGetExhibitors
    \/ SourceGetExisting
    \/ CompanyLoop
    \/ SourceSaveCompanyCheck
    \/ SourceSaveCompanyCountry
    \/ SourceSaveCompanyInsert
    \/ Cleanup

SpecSource == SourceInit /\ [][SourceNext]_vars

\* the second run is under way after a first run that ended
SecondRun == runs = 2 /\ pc # "off"

\* C38: after one complete failure-free run over fixed source data, the next
\* run over the same data never calls get_exhibitors and inserts no Company
\* row, and every event with a non-zero probed count is skipped as up to
\* date, whatever the listing (repeated names, names equal in their first
\* 250 characters).
C38_Converges ==
    [][SecondRun =>
          /\ pc' # "get_exhibitors"
          /\ company' = company
          /\ (pc = "compare" /\ expected_count # 0) =>
                skipped_events' = skipped_events + 1]_vars

\* the names name[:250] the site advertises for the event in hand
AdvertisedKeys ==
    {CompanyKey(ExhibitorName(source_listing[EventExhibitorsUrl(CurEvent)][k])) :
        k \in 1..SourceCount(EventExhibitorsUrl(CurEvent))}

\* the short-circuit of execute() lines 135-139 is about to skip the event
SkipsAsUpToDate ==
    /\ pc = "compare"
    /\ expected_count # 0
    /\ UpToDate(db_count, expected_count)

\* C39: whenever the event in hand is skipped as up to date, every name
\* (cut to 250 characters) advertised for it has a Company row of the event,
\* also when two events share one Event row by their first 50 characters.
C39_SkippedOnlyWhenCaughtUp ==
    SkipsAsUpToDate => AdvertisedKeys \subseteq CompanyNames(event_id)

\* the index of the last page requested by _fetch_exhibitors_from_api
LastRequested == requests[Len(requests)]

\* the last page requested added no rows: fetch_json gave None or {}, the
\* view was empty, or the view had no exhibitor rows
LastPageGaveNothing ==
    /\ requests # <<>>
    /\ \/ response.json \in {"None", "{}"}
       \/ page_failed
       \/ LastRequested > served_pages

\* C40: when the pagination has ended on a page j that failed, had an empty
\* view or had no rows, _fetch_exhibitors_from_api holds exactly the rows of
\* pages 1..j-1; and get_exhibitors made the HTML parse only when the API
\* path gave no rows at all: it was not entered, or it ended without rows
\* and without a request beyond page 1.  With rows from the API,
\* get_exhibitors returns exactly them.
C40_PartialPagesKept ==
    /\ (pg_pc = "done" /\ LastPageGaveNothing) =>
          all_exhibitors = RowsOfPages(LastRequested - 1)
    /\ gx_fallback =>
          \/ ~gx_paginated
          \/ all_exhibitors = <<>> /\ Len(requests) <= 1
    /\ (Listed /\ gx_paginated /\ all_exhibitors # <<>>) =>
          gx_result = all_exhibitors /\ ~gx_fallback

\* C40 witness: the request for page 3 failed after pages 1 and 2 gave rows,
\* and get_exhibitors returned the rows of pages 1 and 2 without the HTML
\* parse.
C40_Witness ==
    /\ Listed
    /\ gx_paginated
    /\ requests # <<>>
    /\ LastRequested = 3
    /\ response.json = "None"
    /\ gx_result = RowsOfPages(2)
    /\ ~gx_fallback

====
